---- MODULE Spec2Model ----
(***************************************************************************)
(* The libretro session driver of Stella (StellaLIBRETRO): one session     *)
(* object, the console engine it drives (Console / TIA / M6532 / sound     *)
(* queue / state manager, consumed as a black box), and the host that      *)
(* calls it one operation at a time.                                       *)
(*                                                                         *)
(* runFrame is modelled statement by statement (pc, lcv); every other host *)
(* call is one atomic action, enabled only while no frame is in progress.  *)
(***************************************************************************)
EXTENDS Integers, Sequences, FiniteSets, TLC

\* ------------------------------------------------------------------ bounds
\* Bytes of the RAM window that are modelled (the program uses 128).
RamSize == 2
\* Longest frame, in scanlines, of a cartridge of the model.
MaxLines == 2

\* ------------------------------------------------------- program constants
\* settings.setValue(AudioSettings::SETTING_FRAGMENT_SIZE, 128)
AudioFragmentSize == 128
\* Mutant: create() asks for a sound queue one fragment longer.
AudioBufferSize_Longer == 8 + 1
\* settings.setValue(AudioSettings::SETTING_BUFFER_SIZE, 8)
AudioBufferSize == 8
\* Int16 cells of audio_buffer, make_unique<Int16[]>(audio_buffer_max): the
\* capacity agreed at session creation, two channels of AudioBufferSize
\* fragments of AudioFragmentSize samples.
audio_buffer_max == 2048

\* Byte values are kept to their low bit.
Byte == {0, 1}
ByteWrap(v) == v % 2
RamIdx == 0..(RamSize - 1)

\* audio_buffer is kept one cell per fragment: cell k stands for the Int16
\* cells 2*AudioFragmentSize*k .. 2*AudioFragmentSize*(k+1)-1.
AudioSlots == audio_buffer_max \div (2 * AudioFragmentSize)

\* lcv | 0x80 and addr & 0x7f, computed on the bits.
Or80(i) == IF (i \div 128) % 2 = 1 THEN i ELSE i + 128
And7F(a) == a % 128

\* ------------------------------------------------------------- cartridges
\* What a ROM image makes the engine do: its frame length in scanlines (0: the
\* engine never reports scanline zero again) and the audio fragments a
\* scanline produces.  The program of every cartridge counts RAM byte 0 up
\* once a scanline, and displays frames and plays sound only while the last
\* RAM byte is 0.  id 0 is an image no console can be built of.
BadRom == [id |-> 0, lines |-> 1, aud |-> 0]
Roms ==
  { [id |-> 1, lines |-> 1,        aud |-> 1],
    [id |-> 2, lines |-> MaxLines, aud |-> 5],
    [id |-> 3, lines |-> 0,        aud |-> 0] }
RomImages == Roms \cup {BadRom}

\* -------------------------------------------------- the engine (black box)
ZeroRam == [i \in RamIdx |-> 0]
NoEngine == [rom |-> BadRom, ram |-> ZeroRam, scanlines |-> 0,
             framePending |-> FALSE, queue |-> <<>>, qcap |-> 0,
             surface |-> 0]

\* OSystem::createConsole: a console in its power-on state.
NewConsole(rom, bufsize) ==
  [rom |-> rom, ram |-> ZeroRam, scanlines |-> 0, framePending |-> FALSE,
   queue |-> <<>>, qcap |-> bufsize, surface |-> 0]

\* M6532::poke on the RAM window.
poke(e, addr, v) == [e EXCEPT !.ram[And7F(addr)] = v]

\* M6532::getRAM.
getRAM(e) == e.ram

\* The sound queue holds at most qcap fragments; a fragment pushed on a full
\* queue replaces the oldest.
Enqueue(q, cap, f) ==
  IF cap = 0 THEN q
  ELSE IF Len(q) < cap THEN Append(q, f)
  ELSE Append(Tail(q), f)

RECURSIVE EnqueueN(_, _, _, _)
EnqueueN(q, cap, f, n) ==
  IF n = 0 THEN q ELSE EnqueueN(Enqueue(q, cap, f), cap, f, n - 1)

\* TIA::updateScanline: run the machine to the end of the scanline.
updateScanline(e) ==
  LET ram1 == [e.ram EXCEPT ![0] = ByteWrap(e.ram[0] + 1)]
      live == ram1[RamSize - 1] = 0
      wrap == e.rom.lines # 0 /\ e.scanlines + 1 >= e.rom.lines
      line1 == IF e.rom.lines = 0 THEN 1
               ELSE IF wrap THEN 0 ELSE e.scanlines + 1
  IN [e EXCEPT !.ram = ram1,
               !.scanlines = line1,
               !.framePending =
                 IF wrap /\ live THEN TRUE ELSE @,
               !.queue = EnqueueN(@, e.qcap, ram1[0],
                                  IF live THEN e.rom.aud ELSE 0)]

\* TIA::scanlines and TIA::newFramePending.
scanlines(e) == e.scanlines
newFramePending(e) == e.framePending

\* TIA::renderToFrameBuffer and FrameBuffer::updateInEmulationMode.
\* The render surface is kept as one value, the picture of the RAM drawn.
renderToFrameBuffer(e) ==
  [e EXCEPT !.surface = 1 + e.ram[0], !.framePending = FALSE]

\* Serializer / StateManager::saveState: the machine state as a byte sequence,
\* a signature, the cartridge, then the machine registers and the RAM.
StateHeader == 83
Serialize(e) ==
  <<StateHeader, e.rom.id, e.scanlines, IF e.framePending THEN 1 ELSE 0>>
    \o [i \in 1..RamSize |-> e.ram[i - 1]]
SnapLen == 4 + RamSize

\* StateManager::loadState: the verdict on a byte sequence for console e.
ValidState(e, bytes) ==
  /\ Len(bytes) = SnapLen
  /\ bytes[1] = StateHeader
  /\ bytes[2] = e.rom.id
  /\ bytes[3] \in 0..MaxLines
  /\ (e.rom.lines # 0 => bytes[3] < e.rom.lines)
  /\ bytes[4] \in {0, 1}
  /\ \A i \in 5..SnapLen : bytes[i] \in Byte

Deserialize(e, bytes) ==
  [e EXCEPT !.scanlines = bytes[3],
            !.framePending = (bytes[4] = 1),
            !.ram = [i \in RamIdx |-> bytes[5 + i]]]

\* SoundLIBRETRO::dequeue(stream, samples): every queued fragment is copied to
\* the stream from its start, and *samples is the number of stereo samples.
DequeueStream(stream, q) ==
  [k \in (DOMAIN stream) \cup (0..(Len(q) - 1)) |->
     IF k < Len(q) THEN q[k + 1] ELSE stream[k]]
DequeueCount(q) == (2 * AudioFragmentSize * Len(q)) \div 2

\* ------------------------------------------------------------------- state
VARIABLES
  rom_image,       \* the image handed over by setROM
  myOSystem,       \* "null", "noconsole" (createConsole failed) or "console"
  engine,          \* the console myOSystem owns
  system_ready,
  video_ready,
  audio_samples,
  audio_buffer,
  system_ram,
  config,          \* the option fields of the session
  settings,        \* the Settings of the OSystem myOSystem points to
  applied,         \* what the console and its surface have been told to use
  render_width,    \* the render dimensions getVideoResize recorded last
  render_height,
  pc,              \* where runFrame stands; "idle" between host calls
  lcv,             \* runFrame's loop variable
  trace,           \* the engine calls of the current (or last) runFrame
  frame_in,        \* the session as runFrame found it
  last,            \* the last completed host call and what it returned
  mapper,          \* the EventMappingWidget and the widgets it owns
  heard,           \* the key-down and axis events it got since startRemapping
  checks           \* the CheckListWidget and its checkboxes

sessVars == <<system_ready, video_ready, audio_samples, audio_buffer, system_ram>>
renderVars == <<render_width, render_height>>
cfgVars == <<config, settings, applied, render_width, render_height>>
guiVars == <<mapper, heard, checks>>
vars == <<rom_image, myOSystem, engine, system_ready, video_ready,
          audio_samples, audio_buffer, system_ram, config, settings, applied,
          render_width, render_height, pc, lcv, trace, frame_in, last,
          mapper, heard, checks>>

\* ------------------------------------------------ runFrame, step by step
\* The session fields a frame reads and writes, as one record.
Cur == [video_ready |-> video_ready, audio_samples |-> audio_samples,
        audio_buffer |-> audio_buffer, system_ram |-> system_ram,
        trace |-> trace, eng |-> engine]

Call(op, a, v) == [v |-> v, a |-> a, op |-> op]

\* Mutant: the loop runs from the top of the mirror down.
WriteRam_Descending(s, i) ==
  [s EXCEPT !.eng = poke(s.eng, Or80(RamSize - 1 - i), s.system_ram[RamSize - 1 - i]),
            !.trace = Append(@, Call("poke", Or80(RamSize - 1 - i),
                                     s.system_ram[RamSize - 1 - i]))]

\* myOSystem->console().system().m6532().poke(lcv | 0x80, system_ram[lcv])
WriteRam(s, i) ==
  [s EXCEPT !.eng = poke(s.eng, Or80(i), s.system_ram[i]),
            !.trace = Append(@, Call("poke", Or80(i), s.system_ram[i]))]

\* Mutant: the controllers are polled a second time after the switches.
updateInput_Repoll(s) ==
  [s EXCEPT !.trace = @ \o <<Call("leftController.update", 0, 0),
                             Call("rightController.update", 0, 0),
                             Call("switches.update", 0, 0),
                             Call("leftController.update", 0, 0),
                             Call("rightController.update", 0, 0)>>]

\* updateInput: the two controllers, then the switches.
updateInput(s) ==
  [s EXCEPT !.trace = @ \o <<Call("leftController.update", 0, 0),
                             Call("rightController.update", 0, 0),
                             Call("switches.update", 0, 0)>>]

\* The trace keeps a run of updateScanline calls as one entry that counts
\* them, up to MaxLines + 1.
LogScanline(t) ==
  IF t # <<>> /\ t[Len(t)].op = "updateScanline"
  THEN [t EXCEPT ![Len(t)].v = IF @ <= MaxLines THEN @ + 1 ELSE @]
  ELSE Append(t, Call("updateScanline", 0, 1))

\* updateVideo, one turn of its loop: tia.updateScanline().
ScanStep(s) ==
  [s EXCEPT !.eng = updateScanline(s.eng), !.trace = LogScanline(@)]

\* updateVideo: if(tia.scanlines() == 0) break;
\* Mutant: the loop condition never lets the loop end.
ScanDone_Never(s) == scanlines(s.eng) < 0

ScanDone(s) == scanlines(s.eng) = 0

\* Mutant: the frame is rendered whether or not one is pending.
PresentVideo_AlwaysRender(s) ==
  LET ready == newFramePending(s.eng)
  IN [s EXCEPT !.video_ready = ready,
               !.eng = renderToFrameBuffer(s.eng),
               !.trace = @ \o <<Call("newFramePending", 0, IF ready THEN 1 ELSE 0),
                                 Call("renderToFrameBuffer", 0, 0),
                                 Call("updateInEmulationMode", 0, 0)>>]

\* updateVideo after its loop: video_ready = tia.newFramePending(), and the
\* frame is rendered when it is set.
PresentVideo(s) ==
  LET ready == newFramePending(s.eng)
      asked == Append(s.trace, Call("newFramePending", 0, IF ready THEN 1 ELSE 0))
  IN IF ready
     THEN [s EXCEPT !.video_ready = TRUE,
                    !.eng = renderToFrameBuffer(s.eng),
                    !.trace = asked \o <<Call("renderToFrameBuffer", 0, 0),
                                         Call("updateInEmulationMode", 0, 0)>>]
     ELSE [s EXCEPT !.video_ready = FALSE, !.trace = asked]

\* Mutant: the new count is added to the count of the call before.
updateAudio_Accumulate(s) ==
  [s EXCEPT !.audio_buffer = DequeueStream(s.audio_buffer, s.eng.queue),
            !.audio_samples = @ + DequeueCount(s.eng.queue),
            !.eng = [s.eng EXCEPT !.queue = <<>>],
            !.trace = Append(@, Call("dequeue", 0, Len(s.eng.queue)))]

\* updateAudio: dequeue(audio_buffer.get(), &audio_samples)
updateAudio(s) ==
  [s EXCEPT !.audio_buffer = DequeueStream(s.audio_buffer, s.eng.queue),
            !.audio_samples = DequeueCount(s.eng.queue),
            !.eng = [s.eng EXCEPT !.queue = <<>>],
            !.trace = Append(@, Call("dequeue", 0, Len(s.eng.queue)))]

\* Mutant: the mirror is not copied back.
RefreshRam_Skipped(s) == [s EXCEPT !.trace = Append(@, Call("getRAM", 0, 0))]

\* memcpy(system_ram, ...m6532().getRAM(), 128)
RefreshRam(s) ==
  [s EXCEPT !.system_ram = getRAM(s.eng),
            !.trace = Append(@, Call("getRAM", 0, 0))]

\* runFrame from its entry to its return, for a console whose frames end.
RECURSIVE WriteRamFrom(_, _)
WriteRamFrom(s, i) ==
  IF i <= RamSize - 1 THEN WriteRamFrom(WriteRam(s, i), i + 1) ELSE s

RECURSIVE ScanLoop(_)
ScanLoop(s) ==
  LET s1 == ScanStep(s) IN IF ScanDone(s1) THEN s1 ELSE ScanLoop(s1)

RunFrameFn(s) ==
  RefreshRam(updateAudio(PresentVideo(ScanLoop(updateInput(
    WriteRamFrom([s EXCEPT !.trace = <<>>], 0))))))

\* The record's fields written back to the session.
Commit(s) ==
  /\ engine' = s.eng
  /\ system_ram' = s.system_ram
  /\ video_ready' = s.video_ready
  /\ audio_samples' = s.audio_samples
  /\ audio_buffer' = s.audio_buffer
  /\ trace' = s.trace

\* ------------------------------------------------------ the snapshot codec
\* A destination byte the call did not write.
Untouched == -1
DestLen == SnapLen + 1
FreshDest == [i \in 1..DestLen |-> Untouched]

\* Serializer::getByteArray(data, n): the first n bytes of the stream to data.
GetByteArray(bytes, dest, n) ==
  [i \in 1..Len(dest) |-> IF i <= n THEN bytes[i] ELSE dest[i]]

\* saveState(data, size); serok is the verdict of myOSystem->state().saveState.
\* Mutant: a snapshot that does not fit is copied up to the capacity.
SaveStateFn_Partial(e, serok, dest, cap) ==
  IF ~serok THEN [dest |-> dest, ok |-> FALSE]
  ELSE IF Len(Serialize(e)) > cap
       THEN [dest |-> GetByteArray(Serialize(e), dest, cap), ok |-> FALSE]
       ELSE [dest |-> GetByteArray(Serialize(e), dest, Len(Serialize(e))),
             ok |-> TRUE]

\* Mutant: a capacity equal to the snapshot's size is refused.
SaveStateFn_Strict(e, serok, dest, cap) ==
  IF ~serok THEN [dest |-> dest, ok |-> FALSE]
  ELSE IF Len(Serialize(e)) >= cap
       THEN [dest |-> dest, ok |-> FALSE]
       ELSE [dest |-> GetByteArray(Serialize(e), dest, Len(Serialize(e))),
             ok |-> TRUE]

SaveStateFn(e, serok, dest, cap) ==
  IF ~serok THEN [dest |-> dest, ok |-> FALSE]
  ELSE IF Len(Serialize(e)) > cap THEN [dest |-> dest, ok |-> FALSE]
  ELSE [dest |-> GetByteArray(Serialize(e), dest, Len(Serialize(e))), ok |-> TRUE]

\* getStateSize()
\* Mutant: the serializer's failure is not tested.
GetStateSizeFn_Unchecked(e, serok) == Len(Serialize(e))

GetStateSizeFn(e, serok) == IF ~serok THEN 0 ELSE Len(Serialize(e))

\* loadState(data, size) on a session with a console: the bytes go through a
\* Serializer to the engine, and the RAM mirror is refreshed on success.
\* Mutant: the verdict of the engine's deserializer is not passed on.
LoadStateFn_Unchecked(s, data) ==
  IF ~ValidState(s.eng, data) THEN [s |-> s, ok |-> TRUE]
  ELSE LET e1 == Deserialize(s.eng, data)
       IN [s |-> [s EXCEPT !.eng = e1, !.system_ram = getRAM(e1)], ok |-> TRUE]

\* Mutant: a successful load leaves the RAM mirror as it was.
LoadStateFn_NoRefresh(s, data) ==
  IF ~ValidState(s.eng, data) THEN [s |-> s, ok |-> FALSE]
  ELSE [s |-> [s EXCEPT !.eng = Deserialize(s.eng, data)], ok |-> TRUE]

\* Mutant: the mirror is refreshed whatever the deserializer said.
LoadStateFn_AlwaysRefresh(s, data) ==
  IF ~ValidState(s.eng, data)
  THEN [s |-> [s EXCEPT !.system_ram = getRAM(s.eng)], ok |-> FALSE]
  ELSE LET e1 == Deserialize(s.eng, data)
       IN [s |-> [s EXCEPT !.eng = e1, !.system_ram = getRAM(e1)], ok |-> TRUE]

LoadStateFn(s, data) ==
  IF ~ValidState(s.eng, data) THEN [s |-> s, ok |-> FALSE]
  ELSE LET e1 == Deserialize(s.eng, data)
       IN [s |-> [s EXCEPT !.eng = e1, !.system_ram = getRAM(e1)], ok |-> TRUE]

\* Byte sequences a host may hand to loadState: snapshots of any machine
\* state, and damaged ones (empty, cut short, wrong signature).
GoodSnaps(e) ==
  { <<StateHeader, e.rom.id, 0, p>> \o ram :
      p \in {0, 1}, ram \in [1..RamSize -> Byte] }
BadSnaps(e) ==
  { <<>>, <<StateHeader>>,
    <<0, e.rom.id, 0, 0>> \o [i \in 1..RamSize |-> 0],
    <<StateHeader, e.rom.id + 1, 0, 0>> \o [i \in 1..RamSize |-> 0] }
LoadInputs(e) == GoodSnaps(e) \cup BadSnaps(e)

\* Capacities a host may declare for a destination of DestLen bytes.
SaveCaps == {0, SnapLen - 1, SnapLen, DestLen}

\* ---------------------------------------------------------------- actions
\* What a host call returned: ok and size are its result (for a loadState,
\* size is the length it was given), cap and dest the
\* destination of a saveState, serok the verdict of the engine's serializer
\* in it (of its deserializer, for a loadState).  sized tells how a saveState's capacity relates to the call before
\* it: "yes" when that call was a getStateSize that returned exactly this
\* capacity from a serialized state, "failed" when it returned it (0) from a
\* failed serializer, "no" otherwise.
Result(op) == [cap |-> 0, op |-> op, dest |-> <<>>, serok |-> TRUE, ok |-> TRUE,
               size |-> 0, sized |-> "no"]
ZeroAudio == [k \in 0..(AudioSlots - 1) |-> 0]
FrameIn0 == [video_ready |-> FALSE, audio_samples |-> 0,
             audio_buffer |-> ZeroAudio, system_ram |-> ZeroRam,
             trace |-> <<>>, eng |-> NoEngine]

\* ---------------------------------------------------------------- options
\* The option fields as the constructor sets them; console_timing and
\* phosphor_default are read back from the console by create().
ConfigDefault ==
  [console_format |-> "AUTO", console_timing |-> "ntsc",
   video_aspect_ntsc |-> 0, video_aspect_pal |-> 0,
   video_palette |-> "standard", video_filter |-> 0,
   video_phosphor |-> "byrom", video_phosphor_blend |-> 60,
   phosphor_default |-> FALSE, audio_mode |-> "byrom"]

\* No OSystem, no Settings; no console, nothing applied.
NoSettings ==
  [format |-> "", palette |-> "", filter |-> -1, phosphor |-> "",
   phosblend |-> -1, stereo |-> ""]
NoApplied ==
  [palette |-> "", phosphor |-> FALSE, ntsc |-> -1, blend |-> -1, audio |-> ""]

\* The option fields with the engine state they are pushed to, as one record.
Opts == [config |-> config, settings |-> settings, applied |-> applied]
CommitOpts(o) ==
  /\ config' = o.config
  /\ settings' = o.settings
  /\ applied' = o.applied
  /\ UNCHANGED renderVars

\* What the cartridge's properties tell the console: the display format it
\* autodetects and whether the game wants phosphor.
RomFormat(rom) == IF rom.id = 1 THEN "NTSC" ELSE "PAL"
RomPhosphor(rom) == rom.id = 2

\* ConsoleInfo::DisplayFormat: the format setting, or the autodetected one
\* (marked with a star).
DisplayFormat(e, st) ==
  IF st.format = "AUTO" THEN RomFormat(e.rom) \o "*" ELSE st.format
ConsoleTimingOf(format) ==
  IF format \in {"NTSC", "NTSC*", "PAL60", "PAL60*"} THEN "ntsc"
  ELSE IF format \in {"PAL", "PAL*", "NTSC50", "NTSC50*"} THEN "pal"
  ELSE "secam"

\* The switch statements of the setters: an unknown mode leaves the name.
FormatName(mode, old) ==
  CASE mode = 0 -> "AUTO" [] mode = 1 -> "NTSC" [] mode = 2 -> "PAL"
    [] mode = 3 -> "SECAM" [] mode = 4 -> "NTSC50" [] mode = 5 -> "PAL60"
    [] mode = 6 -> "SECAM60" [] OTHER -> old
PaletteName(mode, old) ==
  CASE mode = 0 -> "standard" [] mode = 1 -> "z26" [] mode = 2 -> "custom"
    [] OTHER -> old
PhosphorName(mode, old) ==
  CASE mode = 0 -> "byrom" [] mode = 1 -> "never" [] mode = 2 -> "always"
    [] OTHER -> old
AudioName(mode, old) ==
  CASE mode = 0 -> "byrom" [] mode = 1 -> "mono" [] mode = 2 -> "stereo"
    [] OTHER -> old

\* TIASurface::enablePhosphor(enable, blend)
enablePhosphor(o, enable, blend) ==
  [o EXCEPT !.applied.phosphor = enable, !.applied.blend = blend]

\* setConsoleFormat(mode)
SetConsoleFormatFn(o, ready, mode) ==
  LET name == FormatName(mode, o.config.console_format)
      o1 == [o EXCEPT !.config.console_format = name]
  IN IF ready THEN [o1 EXCEPT !.settings.format = name] ELSE o1

\* Mutant: the filter is pushed to the engine whether the session is Ready
\* or not.
SetVideoFilterFn_Unguarded(o, ready, mode) ==
  [o EXCEPT !.config.video_filter = mode, !.settings.filter = mode,
            !.applied.ntsc = mode]

\* setVideoFilter(mode)
SetVideoFilterFn(o, ready, mode) ==
  LET o1 == [o EXCEPT !.config.video_filter = mode]
  IN IF ready THEN [o1 EXCEPT !.settings.filter = mode, !.applied.ntsc = mode]
     ELSE o1

\* Mutant: the palette is stored and waits for the next create().
SetVideoPaletteFn_StoreOnly(o, ready, mode) ==
  [o EXCEPT !.config.video_palette = PaletteName(mode, o.config.video_palette)]

\* setVideoPalette(mode)
SetVideoPaletteFn(o, ready, mode) ==
  LET name == PaletteName(mode, o.config.video_palette)
      o1 == [o EXCEPT !.config.video_palette = name]
  IN IF ready THEN [o1 EXCEPT !.settings.palette = name, !.applied.palette = name]
     ELSE o1

\* setVideoPhosphor(mode, blend)
SetVideoPhosphorFn(o, ready, mode, blend) ==
  LET name == PhosphorName(mode, o.config.video_phosphor)
      o1 == [o EXCEPT !.config.video_phosphor = name,
                      !.config.video_phosphor_blend = blend]
      o2 == [o1 EXCEPT !.settings.phosphor = name, !.settings.phosblend = blend]
  IN IF ~ready THEN o1
     ELSE CASE mode = 0 -> enablePhosphor(o2, o.config.phosphor_default, blend)
            [] mode = 1 -> enablePhosphor(o2, FALSE, blend)
            [] mode = 2 -> enablePhosphor(o2, TRUE, blend)
            [] OTHER -> o2

\* setAudioStereo(mode); Console::initializeAudio reads the setting.
SetAudioStereoFn(o, ready, mode) ==
  LET name == AudioName(mode, o.config.audio_mode)
      o1 == [o EXCEPT !.config.audio_mode = name]
  IN IF ready THEN [o1 EXCEPT !.settings.stereo = name, !.applied.audio = name]
     ELSE o1

\* create(), lines 73-113: the option fields are written into the Settings
\* of the new OSystem.
SettingsOf(c) ==
  [format |-> c.console_format, palette |-> c.video_palette,
   filter |-> c.video_filter, phosphor |-> c.video_phosphor,
   phosblend |-> c.video_phosphor_blend, stereo |-> c.audio_mode]

\* OSystem::createConsole: the console and its surface set themselves up
\* from the Settings and the cartridge's properties.
ConsoleApplied(rom, st) ==
  [palette |-> st.palette,
   phosphor |-> (st.phosphor = "always" \/ RomPhosphor(rom)),
   ntsc |-> st.filter, blend |-> st.phosblend, audio |-> st.stereo]

\* create() for the options.  system_ready is false from the first line of
\* create() to its last but one, also in the setVideoPhosphor it calls.
CreateOptsFn(c, rom) ==
  LET st == SettingsOf(c)
  IN IF rom = BadRom
     THEN [config |-> c, settings |-> st, applied |-> NoApplied]
     ELSE LET ap == ConsoleApplied(rom, st)
              c1 == [c EXCEPT
                       !.console_timing =
                          ConsoleTimingOf(DisplayFormat([rom |-> rom], st)),
                       !.phosphor_default = ap.phosphor]
              o1 == [config |-> c1, settings |-> st, applied |-> ap]
          IN IF c1.video_phosphor = "never"
             THEN SetVideoPhosphorFn(o1, FALSE, 1, c1.video_phosphor_blend)
             ELSE o1

\* Modes and blends a host passes to the setters; the last mode of each set
\* is one the setter does not know.
FormatModes == {0, 1, 7}
FilterModes == {0, 1}
PaletteModes == {1, 3}
PhosphorModes == {0, 1, 2, 3}
Blends == {30}
AudioModes == {1, 3}

\* TIA::width()
TiaWidth == 160

\* ------------------------------------------------ the event-mapping widget
\* Actions the list of the widget shows (the program has one per event).
MaxAction == 1
ActionIdx == 0..MaxAction
\* Most events one remapping is followed for.
MaxHeard == 3
\* What myActionsList->getSelected() can return.
Selections == {-1} \cup ActionIdx
EventModes == {"kEmulationMode", "kMenuMode"}
Commands ==
  {"kSelectionChangedCmd", "kDoubleClickedCmd", "kStartMapCmd", "kStopMapCmd",
   "kEraseCmd", "kResetCmd", "kComboCmd", "kOtherCmd"}
\* The commands the actions list sends, after its selection has changed.
ListCommands == {"kSelectionChangedCmd", "kDoubleClickedCmd"}
Sticks == {0, 1}
Axes == {0, 1}
AxisValues == {-2, 0, 2}
Hats == {0}
\* int(JoyHat::UP) and int(JoyHat::CENTER)
JoyHatUp == 0
JoyHatCenter == 4
HatValues == {JoyHatUp, JoyHatCenter}
JoyButtons == {0}
Keys == {1, 2}
\* A StellaMod is kept as the set of the modifier bits it holds.
\* KBDM_CTRL | KBDM_SHIFT | KBDM_ALT | KBDM_GUI
KbdmMask == {"KBDM_CTRL", "KBDM_SHIFT", "KBDM_ALT", "KBDM_GUI"}
ModInputs == {{}, {"KBDM_CTRL"}, {"KBDM_SHIFT"}, {"KBDM_NUM"}}
\* What myKey and myMod hold before the first startRemapping: the
\* constructor does not set them.
KeyStart == {<<0, {}>>, <<2, {"KBDM_SHIFT"}>>}

\* An input event, or a mapping handed to the event handler.
Ev(kind, key, mod, stick, which, value) ==
  [kind |-> kind, key |-> key, mod |-> mod, stick |-> stick, which |-> which,
   value |-> value]
NoEv == Ev("none", 0, {}, 0, 0, 0)

\* EventMappingWidget::EventMappingWidget.  A button is kept as its
\* FLAG_ENABLED; myComboButton is nullptr, and never enabled, outside
\* kEmulationMode.
EventMappingWidget(mode, key, mod) ==
  [myEventMode |-> mode, myActionSelected |-> -1, myRemapStatus |-> FALSE,
   myLastStick |-> 0, myLastAxis |-> 0, myLastHat |-> 0, myLastValue |-> 0,
   myFirstTime |-> TRUE, myKey |-> key, myMod |-> mod,
   myActionsList |-> [selected |-> -1, enabled |-> TRUE, rawdata |-> FALSE],
   myMapButton |-> TRUE, myCancelMapButton |-> FALSE, myEraseButton |-> TRUE,
   myResetButton |-> TRUE, myComboButton |-> (mode = "kEmulationMode"),
   myKeyMapping |-> [kind |-> "empty", idx |-> -1]]
HasComboButton(w) == w.myEventMode = "kEmulationMode"

\* A call of the widget in progress: the widget, the action indices it has
\* asked the event handler about, and the mapping it has handed to it.
Calling(w) == [asked |-> {}, w |-> w, tried |-> NoEv, accepted |-> FALSE]
\* eventAtIndex / actionAtIndex / keyAtIndex with index idx.
AtIndex(c, idx) == [c EXCEPT !.asked = @ \cup {idx}]
\* add...Mapping(event, mode, ...): the event handler takes the mapping or
\* refuses it.
AddMapping(c, mapping, accept) ==
  [c EXCEPT !.tried = mapping, !.accepted = accept]

\* Whether the event at an index is one of Combo1..Combo16: the action at
\* index ComboIdx is; wild is what the handler answers for an index that
\* names no action.
ComboIdx == 1
IsComboAt(idx, wild) == IF idx \in ActionIdx THEN idx = ComboIdx ELSE wild

\* EventMappingWidget::enableButtons
EnableButtons(c, state, wild) ==
  LET a == [c EXCEPT !.w.myActionsList.enabled = state,
                     !.w.myMapButton = state,
                     !.w.myCancelMapButton = ~state,
                     !.w.myEraseButton = state,
                     !.w.myResetButton = state]
  IN IF HasComboButton(c.w)
     THEN [AtIndex(a, c.w.myActionSelected) EXCEPT
             !.w.myComboButton = state /\ IsComboAt(c.w.myActionSelected, wild)]
     ELSE a

\* EventMappingWidget::drawKeyMapping
DrawKeyMapping(c) ==
  IF c.w.myActionSelected >= 0
  THEN [AtIndex(c, c.w.myActionSelected) EXCEPT
          !.w.myKeyMapping = [kind |-> "key", idx |-> c.w.myActionSelected]]
  ELSE c

\* EventMappingWidget::startRemapping
StartRemappingFn(c, wild) ==
  IF c.w.myActionSelected < 0 \/ c.w.myRemapStatus
  THEN c
  ELSE LET a == [c EXCEPT !.w.myRemapStatus = TRUE,
                          !.w.myLastStick = -1, !.w.myLastAxis = -1,
                          !.w.myLastHat = -1, !.w.myLastValue = -1,
                          !.w.myMod = {}, !.w.myKey = 0]
           b == EnableButtons(a, FALSE, wild)
       IN [AtIndex(b, c.w.myActionSelected) EXCEPT
             !.w.myKeyMapping = [kind |-> "prompt", idx |-> c.w.myActionSelected],
             !.w.myActionsList.rawdata = TRUE]

\* EventMappingWidget::eraseRemapping and resetRemapping, which differ in
\* what they ask the event handler to do with the event.
EraseRemappingFn(c) ==
  IF c.w.myActionSelected < 0
  THEN c
  ELSE DrawKeyMapping(AtIndex(c, c.w.myActionSelected))
ResetRemappingFn(c) ==
  IF c.w.myActionSelected < 0
  THEN c
  ELSE DrawKeyMapping(AtIndex(c, c.w.myActionSelected))

\* EventMappingWidget::stopRemapping
StopRemappingFn(c, wild) ==
  LET a == [c EXCEPT !.w.myRemapStatus = FALSE,
                     !.w.myLastStick = -1, !.w.myLastAxis = -1,
                     !.w.myLastHat = -1, !.w.myLastValue = -1]
      b == DrawKeyMapping(EnableButtons(a, TRUE, wild))
  IN [b EXCEPT !.w.myActionsList.rawdata = FALSE]

\* EventMappingWidget::handleCommand
HandleCommandFn(c, cmd, wild) ==
  CASE cmd = "kSelectionChangedCmd" ->
         IF c.w.myActionsList.selected >= 0
         THEN EnableButtons(
                DrawKeyMapping(
                  [c EXCEPT !.w.myActionSelected = c.w.myActionsList.selected]),
                TRUE, wild)
         ELSE c
    [] cmd = "kDoubleClickedCmd" ->
         IF c.w.myActionsList.selected >= 0
         THEN StartRemappingFn(
                [c EXCEPT !.w.myActionSelected = c.w.myActionsList.selected],
                wild)
         ELSE c
    [] cmd = "kStartMapCmd" -> StartRemappingFn(c, wild)
    [] cmd = "kStopMapCmd" -> StopRemappingFn(c, wild)
    [] cmd = "kEraseCmd" -> EraseRemappingFn(c)
    [] cmd = "kResetCmd" -> ResetRemappingFn(c)
    [] cmd = "kComboCmd" ->
         IF HasComboButton(c.w)
         THEN AtIndex(c, c.w.myActionSelected)
         ELSE c
    [] OTHER -> c

\* EventMappingWidget::loadConfig.  notified: whether setSelected(0) made the
\* list send kSelectionChangedCmd before it returned.
LoadConfigFn(c, notified, wild) ==
  LET a == IF c.w.myFirstTime
           THEN LET s == [c EXCEPT !.w.myActionsList.selected = 0,
                                   !.w.myFirstTime = FALSE]
                IN IF notified
                   THEN HandleCommandFn(s, "kSelectionChangedCmd", wild)
                   ELSE s
           ELSE c
  IN IF a.w.myRemapStatus THEN StopRemappingFn(a, wild) ELSE a

\* EventMappingWidget::setDefaults
SetDefaultsFn(c) == DrawKeyMapping(c)

\* Mutant: handleKeyDown keeps the modifiers of the last key only.
HandleKeyDownFn_LastMod(c, key, mod) ==
  IF c.w.myRemapStatus /\ c.w.myActionSelected >= 0
  THEN [c EXCEPT !.w.myKey = key, !.w.myMod = mod]
  ELSE c
\* EventMappingWidget::handleKeyDown
HandleKeyDownFn(c, key, mod) ==
  IF c.w.myRemapStatus /\ c.w.myActionSelected >= 0
  THEN [c EXCEPT !.w.myKey = key, !.w.myMod = @ \cup mod]
  ELSE c

\* EventMappingWidget::handleKeyUp
HandleKeyUpFn(c, key, mod, accept, wild) ==
  IF c.w.myRemapStatus /\ c.w.myActionSelected >= 0
       /\ mod \cap KbdmMask = {}
  THEN LET a == AddMapping(AtIndex(c, c.w.myActionSelected),
                           Ev("key", c.w.myKey, c.w.myMod, 0, 0, 0), accept)
       IN IF accept THEN StopRemappingFn(a, wild) ELSE a
  ELSE c

\* Mutant: handleJoyDown leaves remap mode whatever the handler answers.
HandleJoyDownFn_AlwaysStops(c, stick, button, accept, wild) ==
  IF c.w.myRemapStatus /\ c.w.myActionSelected >= 0
  THEN StopRemappingFn(
         AddMapping(AtIndex(c, c.w.myActionSelected),
                    Ev("button", 0, {}, stick, button, 0), accept), wild)
  ELSE c
\* EventMappingWidget::handleJoyDown
HandleJoyDownFn(c, stick, button, accept, wild) ==
  IF c.w.myRemapStatus /\ c.w.myActionSelected >= 0
  THEN LET a == AddMapping(AtIndex(c, c.w.myActionSelected),
                           Ev("button", 0, {}, stick, button, 0), accept)
       IN IF accept THEN StopRemappingFn(a, wild) ELSE a
  ELSE c

\* Mutant: handleJoyAxis takes every axis 'on' event as the one to map.
HandleJoyAxisFn_LastOn(c, stick, axis, value, accept, wild) ==
  IF c.w.myRemapStatus /\ c.w.myActionSelected >= 0
  THEN IF value # 0
       THEN [c EXCEPT !.w.myLastStick = stick, !.w.myLastAxis = axis,
                      !.w.myLastValue = value]
       ELSE IF c.w.myLastStick = stick /\ axis = c.w.myLastAxis /\ value = 0
       THEN LET a == AddMapping(AtIndex(c, c.w.myActionSelected),
                                Ev("axis", 0, {}, stick, axis, c.w.myLastValue),
                                accept)
            IN IF accept THEN StopRemappingFn(a, wild) ELSE a
       ELSE c
  ELSE c
\* EventMappingWidget::handleJoyAxis
HandleJoyAxisFn(c, stick, axis, value, accept, wild) ==
  IF c.w.myRemapStatus /\ c.w.myActionSelected >= 0
  THEN IF c.w.myLastStick = -1 /\ c.w.myLastAxis = -1 /\ value # 0
       THEN [c EXCEPT !.w.myLastStick = stick, !.w.myLastAxis = axis,
                      !.w.myLastValue = value]
       ELSE IF c.w.myLastStick = stick /\ axis = c.w.myLastAxis /\ value = 0
       THEN LET a == AddMapping(AtIndex(c, c.w.myActionSelected),
                                Ev("axis", 0, {}, stick, axis, c.w.myLastValue),
                                accept)
            IN IF accept THEN StopRemappingFn(a, wild) ELSE a
       ELSE c
  ELSE c

\* EventMappingWidget::handleJoyHat
HandleJoyHatFn(c, stick, hat, value, accept, wild) ==
  IF c.w.myRemapStatus /\ c.w.myActionSelected >= 0
  THEN IF c.w.myLastStick = -1 /\ c.w.myLastHat = -1 /\ value # JoyHatCenter
       THEN [c EXCEPT !.w.myLastStick = stick, !.w.myLastHat = hat,
                      !.w.myLastValue = value]
       ELSE IF c.w.myLastStick = stick /\ hat = c.w.myLastHat
                 /\ value = JoyHatCenter
       THEN LET a == AddMapping(AtIndex(c, c.w.myActionSelected),
                                Ev("hat", 0, {}, stick, hat, c.w.myLastValue),
                                accept)
            IN IF accept THEN StopRemappingFn(a, wild) ELSE a
       ELSE c
  ELSE c

\* The session, which no widget touches.
sessionVars ==
  <<rom_image, myOSystem, engine, sessVars, cfgVars, pc, lcv, trace, frame_in>>

\* The input events heard keeps: the key-down and the axis events that
\* arrive in remap mode.
Logged == {"keydown", "axis"}
CanHear == ~mapper.myRemapStatus \/ Len(heard) < MaxHeard

\* What the event handler may answer about an index that names no action;
\* it is asked about one only by a widget with no action selected.
WildAnswers ==
  IF mapper.myActionSelected \in ActionIdx THEN {FALSE} ELSE BOOLEAN

\* One call of the widget by the dialog that owns it: op with command cmd or
\* input event ev, which ends with the call c.
MapperCall(op, cmd, ev, c) ==
  /\ mapper' = c.w
  /\ heard' = IF ~mapper.myRemapStatus \/ ~c.w.myRemapStatus THEN <<>>
              ELSE IF ev.kind \in Logged THEN Append(heard, ev)
              ELSE heard
  /\ last' = [op |-> op, asked |-> c.asked, tried |-> c.tried,
              accepted |-> c.accepted, cmd |-> cmd, ev |-> ev]
  /\ UNCHANGED <<checks, sessionVars>>

loadConfig ==
  \E notified \in BOOLEAN, wild \in WildAnswers :
    MapperCall("loadConfig", "", NoEv,
               LoadConfigFn(Calling(mapper), notified, wild))
setDefaults ==
  MapperCall("setDefaults", "", NoEv, SetDefaultsFn(Calling(mapper)))
\* handleCommand(sender, cmd, data, id); sel is what the actions list answers
\* to getSelected(), which only the list changes, before it sends a command.
handleCommand(cmd, sel) ==
  /\ cmd \in ListCommands \/ sel = mapper.myActionsList.selected
  /\ \E wild \in WildAnswers :
       MapperCall("handleCommand", cmd, NoEv,
                  HandleCommandFn(
                    Calling([mapper EXCEPT !.myActionsList.selected = sel]),
                    cmd, wild))
handleKeyDown(key, mod) ==
  /\ CanHear
  /\ MapperCall("handleKeyDown", "", Ev("keydown", key, mod, 0, 0, 0),
                HandleKeyDownFn(Calling(mapper), key, mod))
handleKeyUp(key, mod) ==
  \E accept \in BOOLEAN, wild \in WildAnswers :
    MapperCall("handleKeyUp", "", Ev("keyup", key, mod, 0, 0, 0),
               HandleKeyUpFn(Calling(mapper), key, mod, accept, wild))
handleJoyDown(stick, button) ==
  \E accept \in BOOLEAN, wild \in WildAnswers :
    MapperCall("handleJoyDown", "", Ev("button", 0, {}, stick, button, 0),
               HandleJoyDownFn(Calling(mapper), stick, button, accept, wild))
handleJoyAxis(stick, axis, value) ==
  /\ CanHear
  /\ \E accept \in BOOLEAN, wild \in WildAnswers :
       MapperCall("handleJoyAxis", "", Ev("axis", 0, {}, stick, axis, value),
                  HandleJoyAxisFn(Calling(mapper), stick, axis, value, accept,
                                  wild))
handleJoyHat(stick, hat, value) ==
  \E accept \in BOOLEAN, wild \in WildAnswers :
    MapperCall("handleJoyHat", "", Ev("hat", 0, {}, stick, hat, value),
               HandleJoyHatFn(Calling(mapper), stick, hat, value, accept, wild))

\* --------------------------------------------------- the check-list widget
\* Rows of the widget (h / _fontHeight), each with a checkbox of its own.
Rows == 2
\* Longest list given to setList.
MaxList == 3
Texts == <<"a", "b", "c">>
\* The lists and states setList is given: it asserts that they are of the
\* same length.
ListInputs ==
  UNION {{[state |-> st, list |-> SubSeq(Texts, 1, n)] :
            st \in [1..n -> BOOLEAN]} : n \in 0..MaxList}
\* The line numbers setLine and getState are given.
LineInputs == (-1)..MaxList

\* CheckListWidget::CheckListWidget, on ListWidget::ListWidget.  Line k of the
\* list is list[k + 1], checkbox i is checkList[i + 1].
CheckListWidget(rows) ==
  [list |-> <<>>, rows |-> rows, stateList |-> <<>>,
   checkList |-> [i \in 1..rows |-> [enabled |-> TRUE, state |-> FALSE]],
   currentPos |-> 0, selectedItem |-> -1, fault |-> FALSE]

\* A call of the widget in progress: the widget, the indices it has used on
\* _list and _stateList and on _checkList, and the command it has sent to
\* its boss.
Checking(w) == [w |-> w, used |-> {}, boxes |-> {}, sent |-> <<>>, ret |-> FALSE]
\* A vector indexed outside its size: the call goes on as if nothing was
\* written, or the program stops.
Outcomes == {"silent", "fault"}
OutOfRange(c, ub) == IF ub = "fault" THEN [c EXCEPT !.w.fault = TRUE] ELSE c
InList(w, line) == line >= 0 /\ line < Len(w.stateList)

\* ListWidget::recalc
Recalc(w) ==
  LET size == Len(w.list)
      pos == IF w.currentPos >= size - w.rows
             THEN (IF size <= w.rows THEN 0 ELSE size - w.rows)
             ELSE w.currentPos
      sel == IF w.selectedItem >= size THEN size - 1 ELSE w.selectedItem
  IN [w EXCEPT !.currentPos = IF pos < 0 THEN 0 ELSE pos,
               !.selectedItem = IF sel < 0 THEN 0 ELSE sel]

\* CheckListWidget::setList
SetListFn(c, list, state) ==
  [c EXCEPT !.w = Recalc([c.w EXCEPT
      !.list = list, !.stateList = state,
      !.checkList = [i \in 1..c.w.rows |->
                       [@[i] EXCEPT !.enabled = (i - 1 < Len(state))]]])]

\* CheckListWidget::setLine
SetLineFn(c, line, str, state, ub) ==
  IF line >= Len(c.w.list)
  THEN c
  ELSE LET a == [c EXCEPT !.used = @ \cup {line}]
       IN IF line >= 0 /\ line < Len(c.w.stateList)
          THEN [a EXCEPT !.w.list[line + 1] = str,
                         !.w.stateList[line + 1] = state]
          ELSE OutOfRange(a, ub)

\* CheckListWidget::drawWidget, the loop that sets the checkboxes.
DrawWidgetFn(c) ==
  LET shown == {i \in 0..(c.w.rows - 1) : c.w.currentPos + i < Len(c.w.list)}
  IN [c EXCEPT !.used = @ \cup {c.w.currentPos + i : i \in shown},
               !.boxes = @ \cup shown,
               !.w.checkList =
                 [k \in 1..c.w.rows |->
                    IF k - 1 \in shown /\ c.w.currentPos + k <= Len(c.w.stateList)
                    THEN [@[k] EXCEPT !.state = c.w.stateList[c.w.currentPos + k]]
                    ELSE @[k]]]

\* CheckListWidget::getState
GetStateFn(c, line) ==
  IF line >= 0 /\ line < Len(c.w.stateList)
  THEN [c EXCEPT !.used = @ \cup {line}, !.ret = c.w.stateList[line + 1]]
  ELSE [c EXCEPT !.ret = FALSE]

\* CheckListWidget::handleCommand, case CheckboxWidget::kCheckActionCmd
CheckActionFn(c, data, id, ub) ==
  LET line == c.w.currentPos + id
      a == [c EXCEPT !.used = @ \cup {line}]
      b == IF InList(c.w, line)
           THEN [a EXCEPT !.w.stateList[line + 1] = data]
           ELSE OutOfRange(a, ub)
  IN IF b.w.fault THEN b ELSE [b EXCEPT !.sent = <<"kListItemChecked", line>>]

\* CheckboxWidget::handleMouseUp(0, 0, MouseButton::LEFT, 0) on _checkList[i]:
\* an enabled checkbox toggles and sends kCheckActionCmd with its new state
\* and its id to its target, the list.
CheckboxMouseUp(c, i, ub) ==
  LET a == [c EXCEPT !.boxes = @ \cup {i}]
  IN IF i < 0 \/ i >= c.w.rows
     THEN OutOfRange(a, ub)
     ELSE IF c.w.checkList[i + 1].enabled
     THEN CheckActionFn([a EXCEPT !.w.checkList[i + 1].state = ~@],
                        ~c.w.checkList[i + 1].state, i, ub)
     ELSE a

\* CheckListWidget::handleEvent; the other events are the ListWidget's.
HandleEventFn(c, e, ub) ==
  IF e = "UISelect"
  THEN CheckboxMouseUp(c, c.w.selectedItem, ub)
  ELSE c

\* One call of the widget: op, with event e or on line, which ends with the
\* call c.
CheckListCall(op, e, line, c) ==
  /\ ~checks.fault
  /\ checks' = c.w
  /\ last' = [e |-> e, op |-> op, used |-> c.used, boxes |-> c.boxes,
              sent |-> c.sent, ret |-> c.ret, line |-> line]
  /\ UNCHANGED <<mapper, heard, sessionVars>>

setList(l) ==
  CheckListCall("setList", "", 0, SetListFn(Checking(checks), l.list, l.state))
setLine(line, str, state) ==
  \E ub \in Outcomes :
    CheckListCall("setLine", "", line,
                  SetLineFn(Checking(checks), line, str, state, ub))
drawWidget ==
  CheckListCall("drawWidget", "", 0, DrawWidgetFn(Checking(checks)))
getState(line) ==
  CheckListCall("getState", "", line, GetStateFn(Checking(checks), line))
handleEvent(e) ==
  \E ub \in Outcomes :
    CheckListCall("handleEvent", e, checks.selectedItem,
                  HandleEventFn(Checking(checks), e, ub))
\* A click on the checkbox of row i.
clickCheckbox(i) ==
  \E ub \in Outcomes :
    CheckListCall("clickCheckbox", "", checks.currentPos + i,
                  CheckboxMouseUp(Checking(checks), i, ub))
\* The ListWidget scrolls and selects: any position that shows lines of the
\* list, any line of the list.
scrollTo(pos) ==
  /\ pos >= 0 /\ pos + checks.rows <= Len(checks.list)
  /\ CheckListCall("scrollTo", "", 0,
                   Checking([checks EXCEPT !.currentPos = pos]))
selectLine(item) ==
  /\ item >= 0 /\ item < Len(checks.list)
  /\ CheckListCall("selectLine", "", item,
                   Checking([checks EXCEPT !.selectedItem = item]))

\* What render_width and render_height hold before the first
\* getVideoResize: the constructor does not set them; they may hold the
\* dimensions of an NTSC console or fit no console.
RenderStart == {<<0, 0>>, <<TiaWidth * 2, 210>>}

\* StellaLIBRETRO::StellaLIBRETRO: system_ram and the ROM buffer are not
\* initialised by the constructor.
SessionInit ==
  /\ rom_image \in RomImages
  /\ myOSystem = "null"
  /\ engine = NoEngine
  /\ system_ready = FALSE
  /\ video_ready = FALSE
  /\ audio_samples = 0
  /\ audio_buffer = ZeroAudio
  /\ system_ram \in [RamIdx -> Byte]
  /\ config = ConfigDefault
  /\ settings = NoSettings
  /\ applied = NoApplied
  /\ \E r \in RenderStart : render_width = r[1] /\ render_height = r[2]
  /\ pc = "idle"
  /\ lcv = 0
  /\ trace = <<>>
  /\ frame_in = FrameIn0
  /\ last = Result("new")
\* The session with the widgets of a dialog that is never opened.
Init ==
  /\ SessionInit
  /\ mapper = EventMappingWidget("kEmulationMode", 0, {})
  /\ heard = <<>>
  /\ checks = CheckListWidget(Rows)

\* trace and frame_in describe the last runFrame until the next host call.
NoFrame == trace' = <<>> /\ frame_in' = FrameIn0

\* setROM(data, size); the host hands over the image of a game before it
\* builds the session for it.
setROM(r) ==
  /\ pc = "idle"
  /\ ~system_ready
  /\ rom_image' = r
  /\ last' = Result("void")
  /\ NoFrame
  /\ UNCHANGED <<guiVars, myOSystem, engine, sessVars, pc, lcv>>
  /\ UNCHANGED cfgVars

\* Mutant: the session is marked ready before the console is built.
create_ReadyEarly ==
  /\ pc = "idle"
  /\ IF rom_image = BadRom
     THEN /\ myOSystem' = "noconsole"
          /\ engine' = NoEngine
          /\ last' = [Result("create") EXCEPT !.ok = FALSE]
     ELSE /\ myOSystem' = "console"
          /\ engine' = NewConsole(rom_image, AudioBufferSize)
          /\ last' = Result("create")
  /\ system_ready' = TRUE
  /\ CommitOpts(CreateOptsFn(config, rom_image))
  /\ video_ready' = FALSE
  /\ audio_samples' = 0
  /\ NoFrame
  /\ UNCHANGED <<guiVars, rom_image, audio_buffer, system_ram, pc, lcv>>

\* create(): destroy(), a new OSystem with the session's settings, then the
\* console; the audio queue is sized by SETTING_BUFFER_SIZE.
create ==
  /\ pc = "idle"
  /\ IF rom_image = BadRom
     THEN /\ myOSystem' = "noconsole"
          /\ engine' = NoEngine
          /\ system_ready' = FALSE
          /\ last' = [Result("create") EXCEPT !.ok = FALSE]
     ELSE /\ myOSystem' = "console"
          /\ engine' = NewConsole(rom_image, AudioBufferSize)
          /\ system_ready' = TRUE
          /\ last' = Result("create")
  /\ CommitOpts(CreateOptsFn(config, rom_image))
  /\ video_ready' = FALSE
  /\ audio_samples' = 0
  /\ NoFrame
  /\ UNCHANGED <<guiVars, rom_image, audio_buffer, system_ram, pc, lcv>>

destroy ==
  /\ pc = "idle"
  /\ system_ready' = FALSE
  /\ video_ready' = FALSE
  /\ audio_samples' = 0
  /\ myOSystem' = "null"
  /\ engine' = NoEngine
  /\ settings' = NoSettings
  /\ applied' = NoApplied
  /\ last' = Result("destroy")
  /\ NoFrame
  /\ UNCHANGED <<guiVars, rom_image, audio_buffer, system_ram, config, pc, lcv>>
  /\ UNCHANGED renderVars

\* The host writes the RAM mirror through getRAM() between two calls.
HostWriteRam(i, v) ==
  /\ pc = "idle"
  /\ system_ram' = [system_ram EXCEPT ![i] = v]
  /\ last' = Result("void")
  /\ NoFrame
  /\ UNCHANGED <<guiVars, rom_image, myOSystem, engine, system_ready, video_ready,
                 audio_samples, audio_buffer, pc, lcv>>
  /\ UNCHANGED cfgVars

\* runFrame() is entered.  Without a console myOSystem->console() is a null
\* dereference: the call faults and nothing further is defined.
RunFrameCall ==
  /\ pc = "idle"
  /\ IF myOSystem = "console"
     THEN /\ pc' = "poke"
          /\ frame_in' = Cur
     ELSE /\ pc' = "fault"
          /\ frame_in' = frame_in
  /\ lcv' = 0
  /\ trace' = <<>>
  /\ last' = Result("runFrame")
  /\ UNCHANGED <<guiVars, rom_image, myOSystem, engine, sessVars>>
  /\ UNCHANGED cfgVars

\* for(int lcv = 0; lcv <= 127; lcv++) poke(lcv | 0x80, system_ram[lcv])
RunFramePoke ==
  /\ pc = "poke"
  /\ Commit(WriteRam(Cur, lcv))
  /\ lcv' = lcv + 1
  /\ pc' = IF lcv + 1 <= RamSize - 1 THEN "poke" ELSE "input"
  /\ UNCHANGED <<guiVars, rom_image, myOSystem, system_ready, frame_in, last>>
  /\ UNCHANGED cfgVars

RunFrameInput ==
  /\ pc = "input"
  /\ Commit(updateInput(Cur))
  /\ pc' = "scan"
  /\ UNCHANGED <<guiVars, rom_image, myOSystem, system_ready, lcv, frame_in, last>>
  /\ UNCHANGED cfgVars

\* Mutant: the loop asks for the remaining scanlines before it advances.
RunFrameScan_TestFirst ==
  /\ pc = "scan"
  /\ IF ScanDone(Cur)
     THEN Commit(Cur) /\ pc' = "video"
     ELSE Commit(ScanStep(Cur)) /\ pc' = "scan"
  /\ UNCHANGED <<guiVars, rom_image, myOSystem, system_ready, lcv, frame_in, last>>
  /\ UNCHANGED cfgVars

\* while(1) { tia.updateScanline(); if(tia.scanlines() == 0) break; }
RunFrameScan ==
  /\ pc = "scan"
  /\ LET s == ScanStep(Cur)
     IN /\ Commit(s)
        /\ pc' = IF ScanDone(s) THEN "video" ELSE "scan"
  /\ UNCHANGED <<guiVars, rom_image, myOSystem, system_ready, lcv, frame_in, last>>
  /\ UNCHANGED cfgVars

\* Mutant: presenting the frame puts the video filter option back to 0.
RunFrameVideo_ResetsFilter ==
  /\ pc = "video"
  /\ Commit(PresentVideo(Cur))
  /\ pc' = "audio"
  /\ config' = [config EXCEPT !.video_filter = 0]
  /\ UNCHANGED <<guiVars, rom_image, myOSystem, system_ready, lcv, frame_in, last,
                 settings, applied, render_width, render_height>>

RunFrameVideo ==
  /\ pc = "video"
  /\ Commit(PresentVideo(Cur))
  /\ pc' = "audio"
  /\ UNCHANGED <<guiVars, rom_image, myOSystem, system_ready, lcv, frame_in, last>>
  /\ UNCHANGED cfgVars

RunFrameAudio ==
  /\ pc = "audio"
  /\ Commit(updateAudio(Cur))
  /\ pc' = "refresh"
  /\ UNCHANGED <<guiVars, rom_image, myOSystem, system_ready, lcv, frame_in, last>>
  /\ UNCHANGED cfgVars

RunFrameRefresh ==
  /\ pc = "refresh"
  /\ Commit(RefreshRam(Cur))
  /\ pc' = "idle"
  /\ UNCHANGED <<guiVars, rom_image, myOSystem, system_ready, lcv, frame_in, last>>
  /\ UNCHANGED cfgVars

RunFrameStep ==
  \/ RunFramePoke
  \/ RunFrameInput
  \/ RunFrameScan
  \/ RunFrameVideo
  \/ RunFrameAudio
  \/ RunFrameRefresh

\* saveState(data, size) into a destination of DestLen untouched bytes, of
\* which the host declares cap.  The engine's serializer may fail, and does
\* without a console.
saveState(cap) ==
  /\ pc = "idle"
  /\ IF myOSystem = "null"
     THEN /\ pc' = "fault"
          /\ last' = Result("saveState")
     ELSE /\ pc' = pc
          /\ \E serok \in BOOLEAN :
               /\ serok => myOSystem = "console"
               /\ LET r == SaveStateFn(engine, serok, FreshDest, cap)
                  IN last' = [cap |-> cap, op |-> "saveState", dest |-> r.dest,
                              serok |-> serok, ok |-> r.ok,
                              size |-> IF serok THEN Len(Serialize(engine)) ELSE 0,
                              sized |-> IF last.op = "getStateSize"
                                           /\ last.size = cap
                                        THEN IF last.serok THEN "yes" ELSE "failed"
                                        ELSE "no"]
  /\ NoFrame
  /\ UNCHANGED <<guiVars, rom_image, myOSystem, engine, sessVars, lcv>>
  /\ UNCHANGED cfgVars

getStateSize ==
  /\ pc = "idle"
  /\ IF myOSystem = "null"
     THEN /\ pc' = "fault"
          /\ last' = Result("getStateSize")
     ELSE /\ pc' = pc
          /\ \E serok \in BOOLEAN :
               /\ serok => myOSystem = "console"
               /\ last' = [Result("getStateSize") EXCEPT
                             !.size = GetStateSizeFn(engine, serok),
                             !.serok = serok]
  /\ NoFrame
  /\ UNCHANGED <<guiVars, rom_image, myOSystem, engine, sessVars, lcv>>
  /\ UNCHANGED cfgVars

loadState(data) ==
  /\ pc = "idle"
  /\ IF myOSystem = "null"
     THEN /\ pc' = "fault"
          /\ last' = Result("loadState")
          /\ UNCHANGED <<engine, sessVars>>
          /\ trace' = <<>>
     ELSE IF myOSystem = "noconsole"
     THEN /\ pc' = pc
          /\ last' = [Result("loadState") EXCEPT !.ok = FALSE,
                                                 !.size = Len(data),
                                                 !.serok = FALSE]
          /\ UNCHANGED <<engine, sessVars>>
          /\ trace' = <<>>
     ELSE LET r == LoadStateFn([Cur EXCEPT !.trace = <<>>], data)
          IN /\ pc' = pc
             /\ Commit(r.s)
             /\ last' = [Result("loadState") EXCEPT
                           !.ok = r.ok,
                           !.size = Len(data),
                           !.serok = ValidState(engine, data)]
             /\ UNCHANGED system_ready
  /\ frame_in' = FrameIn0
  /\ UNCHANGED <<guiVars, rom_image, myOSystem, lcv>>
  /\ UNCHANGED cfgVars

\* ----------------------------------------------------- setters and queries
\* A setter called by the host between two other calls.
SetterCall(o) ==
  /\ pc = "idle"
  /\ CommitOpts(o)
  /\ last' = Result("set")
  /\ NoFrame
  /\ UNCHANGED <<guiVars, rom_image, myOSystem, engine, sessVars, pc, lcv>>

setConsoleFormat(mode) == SetterCall(SetConsoleFormatFn(Opts, system_ready, mode))
setVideoFilter(mode) == SetterCall(SetVideoFilterFn(Opts, system_ready, mode))
setVideoPalette(mode) == SetterCall(SetVideoPaletteFn(Opts, system_ready, mode))
setVideoPhosphor(mode, blend) ==
  SetterCall(SetVideoPhosphorFn(Opts, system_ready, mode, blend))
setAudioStereo(mode) == SetterCall(SetAudioStereoFn(Opts, system_ready, mode))

\* getVideoNTSC(): the display format of the console is one of the 60 Hz ones.
VideoNTSCFn(e, st) ==
  DisplayFormat(e, st) \in {"NTSC", "NTSC*", "PAL60", "PAL60*", "SECAM60", "SECAM60*"}

\* getVideoAspectPar(), in units of 1/10000.
VideoAspectParFn(e, st, c) ==
  IF VideoNTSCFn(e, st)
  THEN IF c.video_aspect_ntsc = 0
       THEN IF c.video_filter = 0 THEN 8571 ELSE 10000
       ELSE c.video_aspect_ntsc * 100
  ELSE IF c.video_aspect_pal = 0
       THEN IF c.video_filter = 0 THEN 10396 ELSE 10000
       ELSE c.video_aspect_pal * 100

\* The height of the picture, by the console's timing.
VideoHeight(e, st) == IF VideoNTSCFn(e, st) THEN 210 ELSE 250

\* The render dimensions of the console: the width of the surface, which
\* the TV filter widens, and the height of the display format.
FilteredWidth == 560
RenderWidthFn(ap) == IF ap.ntsc = 0 THEN TiaWidth * 2 ELSE FilteredWidth
RenderHeightFn(e, st) == VideoHeight(e, st)

\* getVideoAspect(), in units of 1/10000.
VideoAspectFn(e, st, c) ==
  (TiaWidth * 2 * VideoAspectParFn(e, st, c)) \div VideoHeight(e, st)

\* A query called by the host between two other calls; it needs what
\* `needs` says myOSystem must hold, and faults on a null pointer otherwise.
QueryCall(op, needs, value) ==
  /\ pc = "idle"
  /\ IF myOSystem \in needs
     THEN /\ pc' = pc
          /\ last' = [Result(op) EXCEPT !.size = value]
     ELSE /\ pc' = "fault"
          /\ last' = Result(op)
  /\ NoFrame
  /\ UNCHANGED <<guiVars, rom_image, myOSystem, engine, sessVars, lcv>>
  /\ UNCHANGED cfgVars

\* Mutant: a change is reported but not recorded.
GetVideoResizeFn_NoRecord(rw, rh, w, h) ==
  [ok |-> rw # w \/ rh # h, w |-> rw, h |-> rh]

\* getVideoResize() on the recorded dimensions rw, rh and the current ones:
\* the result and the dimensions recorded after it.
GetVideoResizeFn(rw, rh, w, h) ==
  IF rw # w \/ rh # h
  THEN [ok |-> TRUE, w |-> w, h |-> h]
  ELSE [ok |-> FALSE, w |-> rw, h |-> rh]

getVideoResize ==
  /\ pc = "idle"
  /\ IF myOSystem = "console"
     THEN LET r == GetVideoResizeFn(render_width, render_height,
                                    RenderWidthFn(applied),
                                    RenderHeightFn(engine, settings))
          IN /\ pc' = pc
             /\ render_width' = r.w
             /\ render_height' = r.h
             /\ last' = [Result("getVideoResize") EXCEPT !.ok = r.ok]
     ELSE /\ pc' = "fault"
          /\ last' = Result("getVideoResize")
          /\ UNCHANGED renderVars
  /\ NoFrame
  /\ UNCHANGED <<guiVars, rom_image, myOSystem, engine, sessVars, lcv>>
  /\ UNCHANGED <<config, settings, applied>>

getVideoNTSC ==
  QueryCall("getVideoNTSC", {"console"},
            IF VideoNTSCFn(engine, settings) THEN 1 ELSE 0)
\* Mutant: the pixel aspect computed for an NTSC console is kept as the
\* session's NTSC aspect, in percent.
getVideoAspectPar_Caches ==
  /\ pc = "idle"
  /\ myOSystem = "console"
  /\ last' = [Result("getVideoAspectPar") EXCEPT
                !.size = VideoAspectParFn(engine, settings, config)]
  /\ config' = IF VideoNTSCFn(engine, settings)
               THEN [config EXCEPT !.video_aspect_ntsc =
                       VideoAspectParFn(engine, settings, config) \div 100]
               ELSE config
  /\ NoFrame
  /\ UNCHANGED <<guiVars, rom_image, myOSystem, engine, sessVars, pc, lcv, settings, applied>>
  /\ UNCHANGED renderVars

getVideoAspectPar ==
  QueryCall("getVideoAspectPar", {"console"},
            VideoAspectParFn(engine, settings, config))
getVideoAspect ==
  QueryCall("getVideoAspect", {"console"},
            VideoAspectFn(engine, settings, config))
\* getVideoBuffer() returns the render surface of the frame buffer, which
\* the OSystem has with or without a console.
getVideoBuffer ==
  QueryCall("getVideoBuffer", {"console", "noconsole"}, 1)

\* What the host reads after a frame: the video-ready flag, the audio count
\* with the samples it covers, and the RAM mirror.
FrameOutputs(s) ==
  [video_ready |-> s.video_ready,
   audio_samples |-> s.audio_samples,
   system_ram |-> s.system_ram,
   audio |-> [k \in 0..((s.audio_samples \div AudioFragmentSize) - 1) |->
                s.audio_buffer[k]]]

\* A session as the constructor, setROM(rom) and a successful create() leave
\* it; ram0 is what the uninitialised system_ram holds.
FreshSession(rom, ram0) ==
  [video_ready |-> FALSE, audio_samples |-> 0, audio_buffer |-> ZeroAudio,
   system_ram |-> ram0, trace |-> <<>>,
   eng |-> NewConsole(rom, AudioBufferSize)]

\* What a host does to the mirror before a frame: it leaves it alone, or
\* writes it.
HostInputs ==
  {[ram |-> ZeroRam, write |-> FALSE]}
    \cup {[ram |-> r, write |-> TRUE] : r \in [RamIdx -> Byte]}
HostMirror(s, m) == IF m.write THEN [s EXCEPT !.system_ram = m.ram] ELSE s

\* The round-trip run of a host: the session is saved into a buffer of the
\* size getStateSize reports, the bytes are loaded into a freshly built
\* session of the same ROM, and both sessions run one frame on the same host
\* input.  The session itself is left as it is; the run is kept in last.
RoundTrip(m, ram0) ==
  /\ pc = "idle"
  /\ system_ready
  /\ engine.rom.lines # 0
  /\ last.op # "roundTrip"
  /\ LET n == GetStateSizeFn(engine, TRUE)
         sv == SaveStateFn(engine, TRUE, FreshDest, n)
         ld == LoadStateFn(FreshSession(rom_image, ram0), SubSeq(sv.dest, 1, n))
         a == HostMirror(Cur, m)
         b == HostMirror(ld.s, m)
         ra == RunFrameFn(a)
         rb == RunFrameFn(b)
     IN last' = [op |-> "roundTrip", saved |-> sv.ok, loaded |-> ld.ok,
                 wrote |-> m.write,
                 synced |-> system_ram = getRAM(engine),
                 inA |-> a.system_ram, inB |-> b.system_ram,
                 stepped |-> ra.eng.ram # a.system_ram,
                 outA |-> FrameOutputs(ra),
                 outB |-> FrameOutputs(rb)]
  /\ NoFrame
  /\ UNCHANGED <<guiVars, rom_image, myOSystem, engine, sessVars, pc, lcv>>
  /\ UNCHANGED cfgVars

\* ------------------------------------------------ Bankswitch (resolver)
\* Strings are sequences of characters.  The tables are those of the source,
\* row by row; a scheme id is written as the enumerator names it.
\* Bankswitch::ourExtensions without the row of "zip", which is compiled in
\* with ZIP_SUPPORT only.
ExtensionRows ==
  <<
    <<<<"a", "2", "6">>, "_AUTO">>,
    <<<<"b", "i", "n">>, "_AUTO">>,
    <<<<"r", "o", "m">>, "_AUTO">>,
    <<<<"c", "u">>, "_AUTO">>,
    <<<<"0", "8", "4">>, "_0840">>,
    <<<<"0", "8", "4", "0">>, "_0840">>,
    <<<<"2", "N", "1">>, "_2IN1">>,
    <<<<"4", "N", "1">>, "_4IN1">>,
    <<<<"8", "N", "1">>, "_8IN1">>,
    <<<<"1", "6", "N">>, "_16IN1">>,
    <<<<"1", "6", "N", "1">>, "_16IN1">>,
    <<<<"3", "2", "N">>, "_32IN1">>,
    <<<<"3", "2", "N", "1">>, "_32IN1">>,
    <<<<"6", "4", "N">>, "_64IN1">>,
    <<<<"6", "4", "N", "1">>, "_64IN1">>,
    <<<<"1", "2", "8">>, "_128IN1">>,
    <<<<"1", "2", "8", "N", "1">>, "_128IN1">>,
    <<<<"2", "K">>, "_2K">>,
    <<<<"3", "E">>, "_3E">>,
    <<<<"3", "E", "P">>, "_3EP">>,
    <<<<"3", "E", "+">>, "_3EP">>,
    <<<<"3", "F">>, "_3F">>,
    <<<<"4", "A", "5">>, "_4A50">>,
    <<<<"4", "A", "5", "0">>, "_4A50">>,
    <<<<"4", "K">>, "_4K">>,
    <<<<"4", "K", "S">>, "_4KSC">>,
    <<<<"4", "K", "S", "C">>, "_4KSC">>,
    <<<<"A", "R">>, "_AR">>,
    <<<<"B", "F">>, "_BF">>,
    <<<<"B", "F", "S">>, "_BFSC">>,
    <<<<"B", "F", "S", "C">>, "_BFSC">>,
    <<<<"B", "U", "S">>, "_BUS">>,
    <<<<"C", "D", "F">>, "_CDF">>,
    <<<<"C", "M">>, "_CM">>,
    <<<<"C", "T", "Y">>, "_CTY">>,
    <<<<"C", "V">>, "_CV">>,
    <<<<"C", "V", "P">>, "_CVP">>,
    <<<<"D", "A", "S">>, "_DASH">>,
    <<<<"D", "A", "S", "H">>, "_DASH">>,
    <<<<"D", "F">>, "_DF">>,
    <<<<"D", "F", "S">>, "_DFSC">>,
    <<<<"D", "F", "S", "C">>, "_DFSC">>,
    <<<<"D", "P", "C">>, "_DPC">>,
    <<<<"D", "P", "P">>, "_DPCP">>,
    <<<<"D", "P", "C", "P">>, "_DPCP">>,
    <<<<"E", "0">>, "_E0">>,
    <<<<"E", "7">>, "_E7">>,
    <<<<"E", "7", "8">>, "_E78K">>,
    <<<<"E", "7", "8", "K">>, "_E78K">>,
    <<<<"E", "F">>, "_EF">>,
    <<<<"E", "F", "S">>, "_EFSC">>,
    <<<<"E", "F", "S", "C">>, "_EFSC">>,
    <<<<"F", "0">>, "_F0">>,
    <<<<"F", "4">>, "_F4">>,
    <<<<"F", "4", "S">>, "_F4SC">>,
    <<<<"F", "4", "S", "C">>, "_F4SC">>,
    <<<<"F", "6">>, "_F6">>,
    <<<<"F", "6", "S">>, "_F6SC">>,
    <<<<"F", "6", "S", "C">>, "_F6SC">>,
    <<<<"F", "8">>, "_F8">>,
    <<<<"F", "8", "S">>, "_F8SC">>,
    <<<<"F", "8", "S", "C">>, "_F8SC">>,
    <<<<"F", "A">>, "_FA">>,
    <<<<"F", "A", "2">>, "_FA2">>,
    <<<<"F", "E">>, "_FE">>,
    <<<<"M", "D", "M">>, "_MDM">>,
    <<<<"S", "B">>, "_SB">>,
    <<<<"U", "A">>, "_UA">>,
    <<<<"W", "D">>, "_WD">>,
    <<<<"X", "0", "7">>, "_X07">>
  >>
\* Mutant: "zip" is the extension of a scheme.
ZipRow_Scheme == <<<<"z", "i", "p">>, "_F8">>

ZipRow == <<<<"z", "i", "p">>, "_AUTO">>

\* Bankswitch::ourNameToTypes
NameRows ==
  <<
    <<<<"A", "U", "T", "O">>, "_AUTO">>,
    <<<<"0", "8", "4", "0">>, "_0840">>,
    <<<<"2", "I", "N", "1">>, "_2IN1">>,
    <<<<"4", "I", "N", "1">>, "_4IN1">>,
    <<<<"8", "I", "N", "1">>, "_8IN1">>,
    <<<<"1", "6", "I", "N", "1">>, "_16IN1">>,
    <<<<"3", "2", "I", "N", "1">>, "_32IN1">>,
    <<<<"6", "4", "I", "N", "1">>, "_64IN1">>,
    <<<<"1", "2", "8", "I", "N", "1">>, "_128IN1">>,
    <<<<"2", "K">>, "_2K">>,
    <<<<"3", "E">>, "_3E">>,
    <<<<"3", "E", "+">>, "_3EP">>,
    <<<<"3", "F">>, "_3F">>,
    <<<<"4", "A", "5", "0">>, "_4A50">>,
    <<<<"4", "K">>, "_4K">>,
    <<<<"4", "K", "S", "C">>, "_4KSC">>,
    <<<<"A", "R">>, "_AR">>,
    <<<<"B", "F">>, "_BF">>,
    <<<<"B", "F", "S", "C">>, "_BFSC">>,
    <<<<"B", "U", "S">>, "_BUS">>,
    <<<<"C", "D", "F">>, "_CDF">>,
    <<<<"C", "M">>, "_CM">>,
    <<<<"C", "T", "Y">>, "_CTY">>,
    <<<<"C", "V">>, "_CV">>,
    <<<<"C", "V", "+">>, "_CVP">>,
    <<<<"D", "A", "S", "H">>, "_DASH">>,
    <<<<"D", "F">>, "_DF">>,
    <<<<"D", "F", "S", "C">>, "_DFSC">>,
    <<<<"D", "P", "C">>, "_DPC">>,
    <<<<"D", "P", "C", "+">>, "_DPCP">>,
    <<<<"E", "0">>, "_E0">>,
    <<<<"E", "7">>, "_E7">>,
    <<<<"E", "7", "8", "K">>, "_E78K">>,
    <<<<"E", "F">>, "_EF">>,
    <<<<"E", "F", "S", "C">>, "_EFSC">>,
    <<<<"F", "0">>, "_F0">>,
    <<<<"F", "4">>, "_F4">>,
    <<<<"F", "4", "S", "C">>, "_F4SC">>,
    <<<<"F", "6">>, "_F6">>,
    <<<<"F", "6", "S", "C">>, "_F6SC">>,
    <<<<"F", "8">>, "_F8">>,
    <<<<"F", "8", "S", "C">>, "_F8SC">>,
    <<<<"F", "A">>, "_FA">>,
    <<<<"F", "A", "2">>, "_FA2">>,
    <<<<"F", "E">>, "_FE">>,
    <<<<"M", "D", "M">>, "_MDM">>,
    <<<<"S", "B">>, "_SB">>,
    <<<<"U", "A">>, "_UA">>,
    <<<<"W", "D">>, "_WD">>,
    <<<<"X", "0", "7">>, "_X07">>
  >>

\* The extension table of a build.
ourExtensions(zip) ==
  IF zip
  THEN SubSeq(ExtensionRows, 1, 3) \o <<ZipRow>>
         \o SubSeq(ExtensionRows, 4, Len(ExtensionRows))
  ELSE ExtensionRows
ourNameToTypes == NameRows

\* Mutant: the descriptor of DPC+ carries the name of DPC.
DescriptorNames_TwoDPC ==
  [i \in 1..Len(NameRows) |->
     IF NameRows[i][2] = "_DPCP" THEN <<"D", "P", "C">> ELSE NameRows[i][1]]

\* Bankswitch::BSList: the name of each descriptor, in the order of the table;
\* the last row is compiled only with CUSTOM_ARM.
DescriptorNames ==
  <<
    <<"A", "U", "T", "O">>,
    <<"0", "8", "4", "0">>,
    <<"2", "I", "N", "1">>,
    <<"4", "I", "N", "1">>,
    <<"8", "I", "N", "1">>,
    <<"1", "6", "I", "N", "1">>,
    <<"3", "2", "I", "N", "1">>,
    <<"6", "4", "I", "N", "1">>,
    <<"1", "2", "8", "I", "N", "1">>,
    <<"2", "K">>,
    <<"3", "E">>,
    <<"3", "E", "+">>,
    <<"3", "F">>,
    <<"4", "A", "5", "0">>,
    <<"4", "K">>,
    <<"4", "K", "S", "C">>,
    <<"A", "R">>,
    <<"B", "F">>,
    <<"B", "F", "S", "C">>,
    <<"B", "U", "S">>,
    <<"C", "D", "F">>,
    <<"C", "M">>,
    <<"C", "T", "Y">>,
    <<"C", "V">>,
    <<"C", "V", "+">>,
    <<"D", "A", "S", "H">>,
    <<"D", "F">>,
    <<"D", "F", "S", "C">>,
    <<"D", "P", "C">>,
    <<"D", "P", "C", "+">>,
    <<"E", "0">>,
    <<"E", "7">>,
    <<"E", "7", "8", "K">>,
    <<"E", "F">>,
    <<"E", "F", "S", "C">>,
    <<"F", "0">>,
    <<"F", "4">>,
    <<"F", "4", "S", "C">>,
    <<"F", "6">>,
    <<"F", "6", "S", "C">>,
    <<"F", "8">>,
    <<"F", "8", "S", "C">>,
    <<"F", "A">>,
    <<"F", "A", "2">>,
    <<"F", "E">>,
    <<"M", "D", "M">>,
    <<"S", "B">>,
    <<"U", "A">>,
    <<"W", "D">>,
    <<"X", "0", "7">>
  >>
CustomName == <<"C", "U", "S", "T", "O", "M">>
BSList(custom) ==
  IF custom THEN DescriptorNames \o <<CustomName>> ELSE DescriptorNames

\* Bankswitch::Type: the enumerators before NumSchemes, in their order;
\* _CUSTOM is declared only with CUSTOM_ARM.
TypeEnum ==
  <<
    "_AUTO", "_0840", "_2IN1", "_4IN1", "_8IN1", "_16IN1", "_32IN1",
    "_64IN1", "_128IN1", "_2K", "_3E", "_3EP", "_3F", "_4A50", "_4K",
    "_4KSC", "_AR", "_BF", "_BFSC", "_BUS", "_CDF", "_CM", "_CTY", "_CV",
    "_CVP", "_DASH", "_DF", "_DFSC", "_DPC", "_DPCP", "_E0", "_E7", "_E78K",
    "_EF", "_EFSC", "_F0", "_F4", "_F4SC", "_F6", "_F6SC", "_F8", "_F8SC",
    "_FA", "_FA2", "_FE", "_MDM", "_SB", "_UA", "_WD", "_X07"
  >>
Types(custom) == IF custom THEN TypeEnum \o <<"_CUSTOM">> ELSE TypeEnum
NumSchemes(custom) == Len(Types(custom))
\* int(type)
IntOf(custom, type) ==
  CHOOSE i \in 0..(NumSchemes(custom) - 1) : Types(custom)[i + 1] = type

\* Bankswitch::typeToName
TypeToNameFn(custom, type) == BSList(custom)[IntOf(custom, type) + 1]


\* Letters, for comparing without regard to case.
UpperChars == <<"A", "B", "C", "D", "E", "F", "G", "H", "I", "J", "K", "L", "M",
                "N", "O", "P", "Q", "R", "S", "T", "U", "V", "W", "X", "Y", "Z">>
LowerChars == <<"a", "b", "c", "d", "e", "f", "g", "h", "i", "j", "k", "l", "m",
                "n", "o", "p", "q", "r", "s", "t", "u", "v", "w", "x", "y", "z">>
ToLower(ch) ==
  IF \E i \in 1..Len(UpperChars) : UpperChars[i] = ch
  THEN LowerChars[CHOOSE i \in 1..Len(UpperChars) : UpperChars[i] = ch]
  ELSE ch
LowerCase(str) == [i \in 1..Len(str) |-> ToLower(str[i])]

\* Mutant: the keys of the extension map are compared as they are spelled.
SameIgnoreCase_Spelled(a, b) == a = b

\* The key comparison of the extension map: equal but for the case of the
\* letters.
SameIgnoreCase(a, b) == LowerCase(a) = LowerCase(b)
\* Mutant: the keys of the name map are compared without regard to case.
SameExactly_AnyCase(a, b) == LowerCase(a) = LowerCase(b)

\* The key comparison of the name map: equal character by character.
SameExactly(a, b) == a = b

\* The key comparison of a map: of the extension map if ignoreCase, of the
\* name map otherwise.
KeysMatch(a, b, ignoreCase) ==
  IF ignoreCase THEN SameIgnoreCase(a, b) ELSE SameExactly(a, b)

\* map.find(key): the row of the key, 0 for end().  Of two rows with keys
\* that compare equal the map holds the first.
MapFind(rows, key, ignoreCase) ==
  IF \E i \in 1..Len(rows) : KeysMatch(rows[i][1], key, ignoreCase)
  THEN CHOOSE i \in 1..Len(rows) :
         /\ KeysMatch(rows[i][1], key, ignoreCase)
         /\ \A j \in 1..(i - 1) : ~KeysMatch(rows[j][1], key, ignoreCase)
  ELSE 0

\* The rows i..Len(rows) that the map keeps: a row is inserted unless a row
\* before it has a key that compares equal.
RECURSIVE Inserted(_, _, _)
Inserted(rows, i, ignoreCase) ==
  IF i > Len(rows) THEN <<>>
  ELSE IF \E j \in 1..(i - 1) : KeysMatch(rows[j][1], rows[i][1], ignoreCase)
       THEN Inserted(rows, i + 1, ignoreCase)
       ELSE <<rows[i]>> \o Inserted(rows, i + 1, ignoreCase)

\* The construction of ourExtensions / ourNameToTypes from the braces of
\* their definition: always a map, of the rows that were inserted.
BuildIndexFn(rows, ignoreCase) ==
  [ok |-> TRUE, index |-> Inserted(rows, 1, ignoreCase)]

\* Mutant: the first '.' is looked for.
FindLastDot_First(name) ==
  IF \E i \in 1..Len(name) : name[i] = "."
  THEN CHOOSE i \in 1..Len(name) :
         name[i] = "." /\ \A j \in 1..(i - 1) : name[j] # "."
  ELSE 0

\* name.find_last_of('.'): the position of the last '.', 0 for npos.
FindLastDot(name) ==
  IF \E i \in 1..Len(name) : name[i] = "."
  THEN CHOOSE i \in 1..Len(name) :
         name[i] = "." /\ \A j \in (i + 1)..Len(name) : name[j] # "."
  ELSE 0
\* name.c_str() + idx + 1
AfterDot(name, idx) == SubSeq(name, idx + 1, Len(name))

\* Bankswitch::nameToType
NameToTypeFn(name) ==
  LET it == MapFind(ourNameToTypes, name, FALSE)
  IN IF it # 0 THEN ourNameToTypes[it][2] ELSE "_AUTO"

\* Bankswitch::typeFromExtension
TypeFromExtensionFn(zip, name) ==
  LET idx == FindLastDot(name)
      it == MapFind(ourExtensions(zip), AfterDot(name, idx), TRUE)
  IN IF idx # 0 /\ it # 0 THEN ourExtensions(zip)[it][2] ELSE "_AUTO"

\* Mutant: a name is valid only if its extension names a scheme.
IsValidRomNameFn_SchemesOnly(zip, name, ext) ==
  LET idx == FindLastDot(name)
      e == AfterDot(name, idx)
      it == MapFind(ourExtensions(zip), e, TRUE)
  IN IF idx # 0 /\ it # 0 /\ ourExtensions(zip)[it][2] # "_AUTO"
     THEN [ok |-> TRUE, ext |-> e]
     ELSE [ok |-> FALSE, ext |-> ext]

\* Bankswitch::isValidRomName(const string& name, string& ext): the result
\* and the caller's ext after the call.
IsValidRomNameFn(zip, name, ext) ==
  LET idx == FindLastDot(name)
      e == AfterDot(name, idx)
      it == MapFind(ourExtensions(zip), e, TRUE)
  IN IF idx # 0 /\ it # 0
     THEN [ok |-> TRUE, ext |-> e]
     ELSE [ok |-> FALSE, ext |-> ext]

\* Paths and tokens given to the resolver: every key of the tables as it is
\* spelled and in lower case, and names that are in no table.
Stem == <<"g", "a", "m", "e">>
Pitfall2A26 == <<"p", "i", "t", "f", "a", "l", "l", "2", ".", "a", "2", "6">>
MegaboyF0 == <<"m", "e", "g", "a", "b", "o", "y", ".", "f", "0">>
TwoDots == <<"m", "y", ".", "g", "a", "m", "e", ".", "F", "8">>
DotInDirectory == <<"r", "o", "m", "s", ".", "f", "8", "/", "g", "a", "m", "e">>
KeysOf(rows) == {rows[i][1] : i \in 1..Len(rows)}
AnyCase(keys) == keys \cup {LowerCase(k) : k \in keys}
GameBin == <<"g", "a", "m", "e", ".", "b", "i", "n">>
GameXyz == <<"g", "a", "m", "e", ".", "x", "y", "z">>
PathInputs ==
  {Stem \o <<".">> \o k : k \in AnyCase(KeysOf(ourExtensions(TRUE)))}
    \cup {Pitfall2A26, MegaboyF0, TwoDots, DotInDirectory,
          Stem, Stem \o <<".">>, <<".">> \o <<"b", "i", "n">>,
          Stem \o <<".">> \o <<"x", "y", "z", "1", "2", "3">>, <<"F", "8">>,
          GameXyz}
\* What the caller's ext holds before isValidRomName.
ExtInputs == {<<>>, <<"o", "l", "d">>}
\* The tables an index is built from: the two of the source, in each build,
\* and each of them with a row added whose token another row has already.
Range(f) == {f[i] : i \in DOMAIN f}
TwiceBin == <<<<"b", "i", "n">>, "_F8">>
TwiceF8 == <<<<"F", "8">>, "_F6">>
Catalogs ==
  {[rows |-> ourExtensions(zip), ignoreCase |-> TRUE] : zip \in BOOLEAN}
    \cup {[rows |-> ourNameToTypes, ignoreCase |-> FALSE],
          [rows |-> ourExtensions(FALSE) \o <<TwiceBin>>, ignoreCase |-> TRUE],
          [rows |-> ourNameToTypes \o <<TwiceF8>>, ignoreCase |-> FALSE]}
DpcPlusLower == <<"d", "p", "c", "+">>
NotAScheme == <<"N", "O", "T", "A", "S", "C", "H", "E", "M", "E">>
TokenInputs ==
  AnyCase(KeysOf(ourNameToTypes))
    \cup {DpcPlusLower, NotAScheme, <<>>, <<"D", "P", "C", "+", " ">>, <<"F", "8", ".", "b", "i", "n">>}

\* A call of one of the resolver's functions; they are static and touch no
\* session.
ResolverCall(r) ==
  /\ last' = r
  /\ UNCHANGED <<guiVars, rom_image, myOSystem, engine, sessVars, cfgVars, pc, lcv,
                 trace, frame_in>>

typeFromExtension(zip, name) ==
  ResolverCall([op |-> "typeFromExtension", name |-> name, zip |-> zip,
                type |-> TypeFromExtensionFn(zip, name)])
nameToType(name) ==
  ResolverCall([op |-> "nameToType", name |-> name, type |-> NameToTypeFn(name)])
typeToName(custom, type) ==
  ResolverCall([op |-> "typeToName", name |-> TypeToNameFn(custom, type),
                custom |-> custom, type |-> type])
buildIndex(rows, ignoreCase) ==
  ResolverCall([op |-> "build", ok |-> BuildIndexFn(rows, ignoreCase).ok,
                rows |-> rows, ignoreCase |-> ignoreCase,
                index |-> BuildIndexFn(rows, ignoreCase).index])
isValidRomName(zip, name, ext) ==
  ResolverCall([op |-> "isValidRomName",
                ok |-> IsValidRomNameFn(zip, name, ext).ok,
                name |-> name, zip |-> zip,
                ext |-> IsValidRomNameFn(zip, name, ext).ext,
                ext_in |-> ext])

NextBankswitch ==
  \/ \E zip \in BOOLEAN, name \in PathInputs : typeFromExtension(zip, name)
  \/ \E name \in TokenInputs : nameToType(name)
  \/ \E zip \in BOOLEAN, name \in PathInputs, ext \in ExtInputs :
       isValidRomName(zip, name, ext)
  \/ \E custom \in BOOLEAN : \E type \in Range(Types(custom)) :
       typeToName(custom, type)
  \/ \E c \in Catalogs : buildIndex(c.rows, c.ignoreCase)
InitBankswitch ==
  Init /\ rom_image = BadRom /\ system_ram = ZeroRam /\ render_width = 0
BankswitchSpec == InitBankswitch /\ [][NextBankswitch]_vars

\* The host calls that change the session or its engine.
NextSession ==
  \/ \E r \in RomImages : setROM(r)
  \/ create
  \/ destroy
  \/ \E i \in RamIdx, v \in Byte : HostWriteRam(i, v)
  \/ RunFrameCall
  \/ RunFrameStep
  \/ \E data \in LoadInputs(engine) : loadState(data)

Next ==
  \/ NextSession
  \/ \E cap \in SaveCaps : saveState(cap)
  \/ getStateSize

Spec == Init /\ [][Next]_vars

\* One thread of control: a frame that was entered runs on.
FairSpec == Spec /\ WF_vars(RunFrameStep)

\* The round-trip run, from every state the session can be brought to.
NextRoundTrip ==
  \/ NextSession
  \/ \E m \in HostInputs, ram0 \in {ZeroRam, [i \in RamIdx |-> 1]} :
       RoundTrip(m, ram0)
RoundTripSpec == Init /\ [][NextRoundTrip]_vars

\* The session with its options: the host sets options, builds and destroys
\* the session, runs frames and asks the derived queries.
NextConfig ==
  \/ \E r \in Roms : setROM(r)
  \/ create
  \/ destroy
  \/ RunFrameCall
  \/ RunFrameStep
  \/ \E mode \in FormatModes : setConsoleFormat(mode)
  \/ \E mode \in FilterModes : setVideoFilter(mode)
  \/ \E mode \in PaletteModes : setVideoPalette(mode)
  \/ \E mode \in PhosphorModes, blend \in Blends : setVideoPhosphor(mode, blend)
  \/ \E mode \in AudioModes : setAudioStereo(mode)
  \/ getVideoNTSC
  \/ getVideoAspectPar
  \/ getVideoAspect
  \/ getVideoBuffer
\* It starts with the image of a game in the ROM buffer and, for a definite
\* run, zeroes in the RAM mirror.
InitConfig ==
  Init /\ rom_image \in Roms /\ system_ram = ZeroRam /\ render_width = 0
ConfigSpec == InitConfig /\ [][NextConfig]_vars

\* The session with its render dimensions: the host builds and destroys the
\* session, changes the display format and the TV filter, and asks whether
\* the dimensions have changed.
NextResize ==
  \/ \E r \in Roms : setROM(r)
  \/ create
  \/ destroy
  \/ \E mode \in FormatModes : setConsoleFormat(mode)
  \/ \E mode \in FilterModes : setVideoFilter(mode)
  \/ getVideoResize
InitResize == Init /\ rom_image \in Roms /\ system_ram = ZeroRam
ResizeSpec == InitResize /\ [][NextResize]_vars

\* The event-mapping widget of an input dialog: the dialog hands it commands
\* and raw input events in any order.  Here every command, and one input
\* event of each kind with its 'on' and its 'off' form.
NextMapping ==
  \/ loadConfig
  \/ setDefaults
  \/ \E cmd \in Commands, sel \in Selections : handleCommand(cmd, sel)
  \/ handleKeyDown(1, {})
  \/ \E mod \in {{}, {"KBDM_CTRL"}} : handleKeyUp(1, mod)
  \/ handleJoyDown(0, 0)
  \/ \E value \in {0, 2} : handleJoyAxis(0, 0, value)
  \/ \E value \in HatValues : handleJoyHat(0, 0, value)
\* The widget as constructed, in either event mode, beside a session nobody
\* uses.
InitMapping ==
  /\ SessionInit /\ rom_image = BadRom /\ system_ram = ZeroRam
  /\ render_width = 0
  /\ \E mode \in EventModes, k \in KeyStart :
       mapper = EventMappingWidget(mode, k[1], k[2])
  /\ heard = <<>>
  /\ checks = CheckListWidget(Rows)
MappingSpec == InitMapping /\ [][NextMapping]_vars

\* The commands that select an action and start and stop its remapping.
RemapCommands == {"kSelectionChangedCmd", "kStartMapCmd", "kStopMapCmd"}
\* Remapping from the keyboard: every key with every modifier.
NextKeys ==
  \/ loadConfig
  \/ \E cmd \in RemapCommands : handleCommand(cmd, 0)
  \/ \E key \in Keys, mod \in ModInputs : handleKeyDown(key, mod)
  \/ \E key \in Keys, mod \in ModInputs : handleKeyUp(key, mod)
KeySpec == InitMapping /\ [][NextKeys]_vars

\* Remapping from a joystick: every axis of every stick, and a hat.
NextAxes ==
  \/ loadConfig
  \/ \E cmd \in RemapCommands : handleCommand(cmd, 0)
  \/ \E stick \in Sticks, axis \in Axes, value \in AxisValues :
       handleJoyAxis(stick, axis, value)
  \/ \E stick \in Sticks, hat \in Hats, value \in HatValues :
       handleJoyHat(stick, hat, value)
AxisSpec == InitMapping /\ [][NextAxes]_vars

\* The check-list widget: its owner fills and reads it, the user scrolls,
\* selects, clicks checkboxes and presses the select key, the dialog draws.
NextChecks ==
  \/ \E l \in ListInputs : setList(l)
  \/ \E line \in LineInputs, state \in BOOLEAN : setLine(line, "z", state)
  \/ drawWidget
  \/ \E line \in LineInputs : getState(line)
  \/ \E e \in {"UISelect", "UIDown"} : handleEvent(e)
  \/ \E i \in 0..(Rows - 1) : clickCheckbox(i)
  \/ \E pos \in 0..MaxList : scrollTo(pos)
  \/ \E item \in 0..MaxList : selectLine(item)
InitChecks ==
  /\ SessionInit /\ rom_image = BadRom /\ system_ram = ZeroRam
  /\ render_width = 0
  /\ mapper = EventMappingWidget("kEmulationMode", 0, {})
  /\ heard = <<>>
  /\ checks = CheckListWidget(Rows)
CheckListSpec == InitChecks /\ [][NextChecks]_vars

\* ------------------------------------------------------------- properties
\* runFrame has returned and the host has made no call since.
Returned == pc = "idle" /\ last.op = "runFrame"

TraceOps == [i \in 1..Len(trace) |-> trace[i].op]
IsPrefix(p, q) == Len(p) <= Len(q) /\ \A i \in 1..Len(p) : p[i] = q[i]
Entry(op) == trace[CHOOSE i \in 1..Len(trace) : trace[i].op = op]
Called(op) == \E i \in 1..Len(trace) : trace[i].op = op

\* The engine calls of one frame, in the order runFrame makes them.
FrameOps(render) ==
  [i \in 1..RamSize |-> "poke"]
    \o <<"leftController.update", "rightController.update", "switches.update">>
    \o <<"updateScanline">>
    \o <<"newFramePending">>
    \o (IF render THEN <<"renderToFrameBuffer", "updateInEmulationMode">> ELSE <<>>)
    \o <<"dequeue">>
    \o <<"getRAM">>

\* C1: at every point of a runFrame the engine calls made so far are a prefix
\* of: the RAM writes, the three update hooks once each, the scanline
\* advances, the frame-pending query with the render it may ask for, the
\* audio drain, the RAM read; and a runFrame that returned made all of them.
C1_FrameOrder ==
  /\ IsPrefix(TraceOps, FrameOps(TRUE)) \/ IsPrefix(TraceOps, FrameOps(FALSE))
  /\ Returned => TraceOps = FrameOps(video_ready)

\* A frame of several scanlines that was rendered has returned.
C1_Witness ==
  /\ Returned
  /\ video_ready
  /\ Entry("updateScanline").v >= 2

\* C2: the first RamSize engine calls of a frame are the writes of mirror
\* byte i, as the host left it, to address 128 + i, for i = 0, 1, ... in this
\* order; no write follows them, and after them the engine's RAM window is
\* the mirror.
C2_AscendingWrites ==
  /\ pc = "poke" => Len(trace) = lcv
  /\ (pc \in {"input", "scan", "video", "audio", "refresh"} \/ Returned)
       => Len(trace) >= RamSize
  /\ \A i \in 1..Len(trace) :
       IF i <= RamSize
       THEN trace[i] = Call("poke", 128 + (i - 1), frame_in.system_ram[i - 1])
       ELSE trace[i].op # "poke"
  /\ pc = "input" => engine.ram = frame_in.system_ram

\* The writes are done, of a mirror whose first and last bytes differ and
\* that differs from the engine's RAM.
C2_Witness ==
  /\ pc = "input"
  /\ frame_in.system_ram[0] # frame_in.system_ram[RamSize - 1]
  /\ frame_in.eng.ram # frame_in.system_ram

\* C3: after runFrame, video_ready is what the engine answered to the
\* frame-pending query, the frame was rendered in the call exactly if the
\* answer was true, and if it was false the render surface is as the call
\* found it.
C3_VideoReady ==
  Returned =>
    /\ video_ready = (Entry("newFramePending").v = 1)
    /\ Called("renderToFrameBuffer") <=> (Entry("newFramePending").v = 1)
    /\ Called("updateInEmulationMode") <=> (Entry("newFramePending").v = 1)
    /\ Entry("newFramePending").v = 0 => engine.surface = frame_in.eng.surface

\* A frame returned with no frame pending, over a picture of an earlier call.
C3_Witness ==
  /\ Returned
  /\ ~video_ready
  /\ engine.surface # 0

\* C4: when runFrame returns, every byte of the RAM mirror is the engine's
\* RAM byte as the frame left it.
C4_MirrorRefreshed ==
  Returned => \A i \in RamIdx : system_ram[i] = getRAM(engine)[i]

\* The frame changed the RAM the host had written, which differed from the
\* engine's.
C4_Witness ==
  /\ Returned
  /\ system_ram # frame_in.system_ram
  /\ frame_in.system_ram # frame_in.eng.ram

\* C5: after runFrame, audio_samples is the number of samples the engine had
\* queued when it was drained (AudioFragmentSize for each fragment), whatever
\* the count before the call; it is 0 if nothing was queued.
C5_AudioCount ==
  Returned => audio_samples = AudioFragmentSize * Entry("dequeue").v

\* A frame with no audio has returned after a frame that had some.
C5_Witness ==
  /\ Returned
  /\ audio_samples = 0
  /\ frame_in.audio_samples > 0

C7_Terminates ==
  /\ (pc \in {"poke", "input", "scan", "video", "audio", "refresh"}
        /\ engine.rom.lines # 0) ~> (pc = "idle")
  /\ [][(pc = "scan" /\ engine.rom.lines = 0) => pc' = "scan"]_vars

\* A frame of as many scanlines as the cartridge has, more than one, has
\* returned.
C7_Witness ==
  /\ Returned
  /\ engine.rom.lines > 1
  /\ Entry("updateScanline").v = engine.rom.lines

\* saveState has returned and the host has made no call since.
Saved == pc = "idle" /\ last.op = "saveState"

\* C8: a saveState whose snapshot is larger than the capacity given, or whose
\* serializer failed, returns false and leaves every byte of the destination
\* as it was.
C8_SaveRejects ==
  (Saved /\ (~last.serok \/ last.size > last.cap))
    => (~last.ok /\ last.dest = FreshDest)

\* A snapshot was refused by a capacity that is not zero.
C8_Witness ==
  /\ Saved
  /\ last.serok
  /\ last.cap > 0
  /\ last.size > last.cap

Loaded == pc = "idle" /\ last.op = "loadState"

\* C11: a loadState that was given zero bytes returns false, whatever the
\* state of the session it was called on.
C11_EmptyRejected == (Loaded /\ last.size = 0) => ~last.ok

\* Zero bytes were refused by a session that has run frames.
C11_Witness ==
  /\ Loaded
  /\ last.size = 0
  /\ system_ready
  /\ engine.ram # ZeroRam

\* C12: a getStateSize that returned gave the length of the engine's
\* serialized state, or 0 if the serializer failed; and the step of a
\* getStateSize changes neither the engine nor any field of the session (the
\* flags, the audio buffer and count, the RAM mirror, the options, the ROM).
C12_QuerySize ==
  /\ []((pc = "idle" /\ last.op = "getStateSize")
          => last.size = IF last.serok THEN Len(Serialize(engine)) ELSE 0)
  /\ [][last'.op = "getStateSize"
          => UNCHANGED <<engine, sessVars, cfgVars, rom_image, myOSystem>>]_vars

\* The size of a session's snapshot was asked after a frame it displayed.
C12_Witness ==
  /\ pc = "idle"
  /\ last.op = "getStateSize"
  /\ last.serok
  /\ last.size = SnapLen
  /\ video_ready
  /\ audio_samples > 0

\* C13: system_ready turns true only in the step of a create() that built
\* the console and returns true, and video_ready is false and audio_samples
\* 0 at its return; a create() that could not build the console returns
\* false and leaves the session not ready; after destroy() the session is
\* not ready, video_ready is false and audio_samples is 0.
C13_ReadyByCreate ==
  /\ [][(~system_ready /\ system_ready')
          => (last'.op = "create" /\ last'.ok /\ myOSystem' = "console")]_vars
  /\ [](system_ready => myOSystem = "console")
  /\ []((pc = "idle" /\ last.op = "create" /\ last.ok)
          => (system_ready /\ ~video_ready /\ audio_samples = 0))
  /\ []((pc = "idle" /\ last.op = "create" /\ ~last.ok)
          => (~system_ready /\ myOSystem = "noconsole"))
  /\ []((pc = "idle" /\ last.op = "destroy")
          => (~system_ready /\ ~video_ready /\ audio_samples = 0))

\* A session that had played audio was created again.
C13_Witness ==
  /\ pc = "idle"
  /\ last.op = "create"
  /\ last.ok
  /\ system_ready
  /\ audio_buffer # ZeroAudio

\* C14: runFrame is never entered on a session that is not ready (never
\* created, created without a console, or destroyed), where it would
\* dereference a pointer that is null.
C14_NeverUnready == ~(pc = "fault" /\ last.op = "runFrame" /\ ~system_ready)

\* A step of runFrame: its entry, or a step of a frame in progress.
FrameStep ==
  \/ pc \notin {"idle", "fault"}
  \/ pc = "idle" /\ pc' # "idle" /\ last'.op = "runFrame"

\* C15: no step of runFrame changes the option fields, the ROM image or the
\* ready flag of the session (nor the engine's settings): of the session's
\* fields a frame writes video_ready, the audio buffer and count and the RAM
\* mirror only.
C15_FrameFootprint ==
  [][FrameStep => UNCHANGED <<config, settings, applied, rom_image,
                              system_ready, myOSystem>>]_vars

\* A frame has returned on a session whose options the host had changed,
\* and has changed the RAM mirror and the audio count.
C15_Witness ==
  /\ Returned
  /\ config.video_filter = 1
  /\ config.video_palette = "z26"
  /\ system_ram # frame_in.system_ram
  /\ audio_samples # frame_in.audio_samples

QueryOps == {"getVideoAspectPar", "getVideoAspect", "getVideoBuffer", "getVideoNTSC"}

\* C17: the step of a derived query changes neither the engine nor any field
\* of the session, and what a query returned is what the state it left
\* gives: asked again, or before any other call, it changes no result.
C17_QueriesPure ==
  /\ [][last'.op \in QueryOps
          => UNCHANGED <<engine, sessVars, cfgVars, rom_image, myOSystem>>]_vars
  /\ []((pc = "idle" /\ last.op = "getVideoNTSC")
          => last.size = IF VideoNTSCFn(engine, settings) THEN 1 ELSE 0)
  /\ []((pc = "idle" /\ last.op = "getVideoAspectPar")
          => last.size = VideoAspectParFn(engine, settings, config))
  /\ []((pc = "idle" /\ last.op = "getVideoAspect")
          => last.size = VideoAspectFn(engine, settings, config))

\* The pixel aspect of an NTSC console with the video filter on was asked
\* after a frame that was displayed.
C17_Witness ==
  /\ pc = "idle"
  /\ last.op = "getVideoAspectPar"
  /\ VideoNTSCFn(engine, settings)
  /\ last.size = 10000
  /\ video_ready

\* The scheme ids of the extension and name tables.
SchemeIds == {NameRows[i][2] : i \in 1..Len(NameRows)}
\* The extensions of a path: what follows a '.' of the path and holds no '.'
\* itself (none for a path without '.', one otherwise).
HasDot(name) == \E i \in 1..Len(name) : name[i] = "."
ExtensionsOf(name) ==
  {SubSeq(name, k + 1, Len(name)) : k \in {i \in 1..Len(name) : name[i] = "."}}
    \ {e \in {SubSeq(name, k + 1, Len(name)) : k \in 1..Len(name)} : HasDot(e)}

\* C18: typeFromExtension always returns a scheme id; for a path whose
\* extension is a key of the extension table as the table spells it, the id
\* of that row; and AUTO for a path without '.' or whose extension is,
\* whatever the case of its letters, no key of the table.
C18_ExtensionLookup ==
  last.op = "typeFromExtension" =>
    /\ last.type \in SchemeIds
    /\ \A i \in 1..Len(ourExtensions(last.zip)) :
         ourExtensions(last.zip)[i][1] \in ExtensionsOf(last.name)
           => last.type = ourExtensions(last.zip)[i][2]
    /\ ~HasDot(last.name) => last.type = "_AUTO"
    /\ (\A e \in ExtensionsOf(last.name) :
          LowerCase(e)
            \notin {LowerCase(k) : k \in KeysOf(ourExtensions(last.zip))})
         => last.type = "_AUTO"

\* A path with two dots was resolved by what follows the second.
C18_Witness ==
  /\ last.op = "typeFromExtension"
  /\ last.name = TwoDots
  /\ last.type = "_F8"

\* C19: an extension that is a key of the extension table in lower case
\* letters gives the id of that key's row: "megaboy.f0" gives the id of the
\* row "F0", "pitfall2.a26" gives AUTO.
C19_LowercaseExtension ==
  last.op = "typeFromExtension" =>
    /\ \A i \in 1..Len(ourExtensions(last.zip)) :
         LowerCase(ourExtensions(last.zip)[i][1]) \in ExtensionsOf(last.name)
           => last.type = ourExtensions(last.zip)[i][2]
    /\ last.name = MegaboyF0 => last.type = "_F0"
    /\ last.name = Pitfall2A26 => last.type = "_AUTO"

\* "megaboy.f0" was resolved.
C19_Witness ==
  /\ last.op = "typeFromExtension"
  /\ last.name = MegaboyF0
  /\ last.type = "_F0"

\* C20: nameToType returns the id of a row of the name table if the token is
\* that row's key, character by character, and AUTO for every other token:
\* a key in the wrong case ("dpc+") and a token of no row ("NOTASCHEME").
C20_TokenLookup ==
  last.op = "nameToType" =>
    /\ \A i \in 1..Len(NameRows) :
         last.name = NameRows[i][1] => last.type = NameRows[i][2]
    /\ last.name \notin KeysOf(NameRows) => last.type = "_AUTO"
    /\ last.type # "_AUTO" =>
         \E i \in 1..Len(NameRows) :
           last.name = NameRows[i][1] /\ last.type = NameRows[i][2]

\* "dpc+" was resolved to AUTO.
C20_Witness ==
  /\ last.op = "nameToType"
  /\ last.name = DpcPlusLower
  /\ last.type = "_AUTO"

\* C21: isValidRomName returns true exactly for a name with a '.' whose
\* extension is a key of the extension table (whatever the case of its
\* letters, and whether the row's id is AUTO or not); then ext is that
\* extension as the name spells it; when it returns false ext is what it was.
C21_ValidRomName ==
  last.op = "isValidRomName" =>
    /\ last.ok <=>
         \E e \in ExtensionsOf(last.name) :
           LowerCase(e) \in {LowerCase(k) : k \in KeysOf(ourExtensions(last.zip))}
    /\ last.ok => last.ext \in ExtensionsOf(last.name)
    /\ ~last.ok => last.ext = last.ext_in
    /\ last.name = GameBin => (last.ok /\ last.ext = <<"b", "i", "n">>)
    /\ last.name = GameXyz => ~last.ok

\* "game.bin" was found valid with "bin", over an ext that held something else.
C21_Witness ==
  /\ last.op = "isValidRomName"
  /\ last.name = GameBin
  /\ last.ok
  /\ last.ext = <<"b", "i", "n">>
  /\ last.ext_in = <<"o", "l", "d">>

\* C22: in either build no two scheme ids have the same name in the
\* descriptor table, and every scheme id has one descriptor with a name; the
\* name index built from its table keeps every row, and no two of its rows
\* have the same token or the same id.
C22_CatalogUnique ==
  /\ last.op = "typeToName" =>
       /\ Len(BSList(last.custom)) = NumSchemes(last.custom)
       /\ last.name # <<>>
       /\ \A t \in Range(Types(last.custom)) :
            t # last.type => TypeToNameFn(last.custom, t) # last.name
       /\ \A i, j \in 1..NumSchemes(last.custom) :
            Types(last.custom)[i] = Types(last.custom)[j] => i = j
  /\ (last.op = "build" /\ last.rows = ourNameToTypes) =>
       /\ last.ok /\ last.index = last.rows
       /\ \A i, j \in 1..Len(last.index) :
            (\/ last.index[i][1] = last.index[j][1]
             \/ last.index[i][2] = last.index[j][2]) => i = j
       /\ \A i \in 1..Len(last.index) : last.index[i][2] \in Range(TypeEnum)

\* The name of DPC+ was asked for in the build with the custom scheme.
C22_Witness ==
  /\ last.op = "typeToName" /\ last.custom /\ last.type = "_DPCP"
       /\ last.name = <<"D", "P", "C", "+">>

\* Two rows of a table have tokens that compare equal.
HasTwice(rows, ignoreCase) ==
  \E i, j \in 1..Len(rows) :
    i < j /\ KeysMatch(rows[i][1], rows[j][1], ignoreCase)

\* C23: building an index from a table in which a token is given twice
\* fails; it never yields an index.
C23_DuplicateRefused ==
  (last.op = "build" /\ HasTwice(last.rows, last.ignoreCase)) =>
    (~last.ok /\ last.index = <<>>)

\* The tokens of an index that map to AUTO.
AutoTokens(index) == {index[i][1] : i \in {j \in 1..Len(index) : index[j][2] = "_AUTO"}}
\* The extension index of the source was built, in either build.
BuiltExtensions ==
  last.op = "build" /\ last.ignoreCase
    /\ \E zip \in BOOLEAN : last.rows = ourExtensions(zip)

\* C24 as stated: exactly three tokens of the extension index map to AUTO.
C24_AsStated == BuiltExtensions => Cardinality(AutoTokens(last.index)) = 3

\* C24: the tokens of the extension index that map to AUTO are "a26", "bin",
\* "rom" and "cu", and "zip" in the build that has it: four or five; every
\* other token maps to a scheme id that is not AUTO.
C24_AutoExtensions ==
  BuiltExtensions =>
    /\ last.ok /\ last.index = last.rows
    /\ AutoTokens(last.index) =
         {<<"a", "2", "6">>, <<"b", "i", "n">>, <<"r", "o", "m">>, <<"c", "u">>}
           \cup (IF last.rows = ourExtensions(TRUE) THEN {<<"z", "i", "p">>} ELSE {})
    /\ Cardinality(AutoTokens(last.index)) =
         IF last.rows = ourExtensions(TRUE) THEN 5 ELSE 4
    /\ \A i \in 1..Len(last.index) :
         last.index[i][2] \in Range(TypeEnum)

\* The extension index was built in the build that knows "zip".
C24_Witness ==
  /\ BuiltExtensions
  /\ last.rows = ourExtensions(TRUE)
  /\ <<"z", "i", "p">> \in AutoTokens(last.index)

\* C25: the name that typeToName gives for a scheme id of either build is
\* resolved by nameToType to that id, and the id that nameToType gives for a
\* token of the name index has that token as its name.
C25_NameRoundTrip ==
  /\ last.op = "typeToName" => NameToTypeFn(last.name) = last.type
  /\ (last.op = "nameToType" /\ last.name \in KeysOf(ourNameToTypes)) =>
       \A custom \in BOOLEAN : TypeToNameFn(custom, last.type) = last.name

\* The scanline advances of the frame so far.
Advances ==
  IF Called("updateScanline") THEN Entry("updateScanline").v ELSE 0
PastScan == pc \in {"video", "audio", "refresh"} \/ Returned

\* C26: every turn of the scanline loop advances the engine by one scanline
\* and the loop is left exactly when the engine then reports zero; so a
\* frame that is past the loop has advanced at least once, also when it was
\* entered with the engine reporting zero, and as often as it took to the
\* first report of zero, in one run.
C26_AtLeastOneScanline ==
  /\ [][pc = "scan" =>
         /\ engine' = updateScanline(engine)
         /\ trace' = LogScanline(trace)
         /\ pc' = IF scanlines(engine') = 0 THEN "video" ELSE "scan"]_vars
  /\ [](pc = "input" => ~Called("updateScanline"))
  /\ [](PastScan =>
         /\ Advances >= 1
         /\ Advances = frame_in.eng.rom.lines - scanlines(frame_in.eng)
         /\ Cardinality({i \in 1..Len(trace) : trace[i].op = "updateScanline"}) = 1)
  /\ [](pc = "video" => scanlines(engine) = 0)

\* A frame entered with the engine reporting zero has returned after more
\* than one advance.
C26_Witness ==
  /\ Returned
  /\ scanlines(frame_in.eng) = 0
  /\ Advances = MaxLines
  /\ scanlines(engine) = 0

\* C27: a loadState that returns gives the verdict of the engine's
\* deserializer; after a true one the RAM mirror is the engine's RAM window;
\* a false one leaves the RAM mirror, video_ready and the audio count as
\* they were.
C27_LoadVerdict ==
  /\ [](Loaded => (last.ok <=> last.serok))
  /\ []((Loaded /\ last.ok) => system_ram = getRAM(engine))
  /\ [][(pc = "idle" /\ pc' = "idle" /\ last'.op = "loadState" /\ ~last'.ok)
         => UNCHANGED <<system_ram, video_ready, audio_samples>>]_vars

\* A snapshot was loaded over a mirror that the host had changed, after a
\* frame that was displayed.
C27_Witness ==
  /\ Loaded
  /\ last.ok
  /\ last.serok
  /\ system_ram # ZeroRam
  /\ video_ready

\* C28: when a create() of a session whose phosphor option is "never" has
\* returned true, the surface's phosphor is off, with the session's blend.
C28_PhosphorForcedOff ==
  (pc = "idle" /\ last.op = "create" /\ last.ok
     /\ config.video_phosphor = "never")
    => (~applied.phosphor /\ applied.blend = config.video_phosphor_blend)

\* What a setter leaves alone on a session that is not Ready: the engine,
\* its settings and what was applied to its console and surface.
EngineUntouched ==
  UNCHANGED <<settings, applied, engine, myOSystem, sessVars, rom_image>>

\* C29: a setter called on a session that is not Ready changes nothing but
\* the stored option; a mode that is none of the setter's cases leaves the
\* stored name as it was; and a create() that returns true has written the
\* stored options, as they were when it was called, into the settings.
C29_SettersGuarded ==
  /\ [][\A mode \in FormatModes : setConsoleFormat(mode) =>
         /\ ~system_ready => EngineUntouched
         /\ mode \notin 0..6 => config'.console_format = config.console_format
         /\ config' = [config EXCEPT !.console_format = config'.console_format]]_vars
  /\ [][\A mode \in FilterModes : setVideoFilter(mode) =>
         /\ ~system_ready => EngineUntouched
         /\ config' = [config EXCEPT !.video_filter = mode]]_vars
  /\ [][\A mode \in PaletteModes : setVideoPalette(mode) =>
         /\ ~system_ready => EngineUntouched
         /\ mode \notin 0..2 => config'.video_palette = config.video_palette
         /\ config' = [config EXCEPT !.video_palette = config'.video_palette]]_vars
  /\ [][\A mode \in PhosphorModes, blend \in Blends :
         setVideoPhosphor(mode, blend) =>
           /\ ~system_ready => EngineUntouched
           /\ mode \notin 0..2 => config'.video_phosphor = config.video_phosphor
           /\ config' = [config EXCEPT
                           !.video_phosphor = config'.video_phosphor,
                           !.video_phosphor_blend = blend]]_vars
  /\ [][\A mode \in AudioModes : setAudioStereo(mode) =>
         /\ ~system_ready => EngineUntouched
         /\ mode \notin 0..2 => config'.audio_mode = config.audio_mode
         /\ config' = [config EXCEPT !.audio_mode = config'.audio_mode]]_vars
  /\ [][(pc = "idle" /\ last'.op = "create" /\ last'.ok)
         => settings' = SettingsOf(config)]_vars

\* Options set on a session that was not Ready have been pushed by the
\* create() that followed.
C29_Witness ==
  /\ pc = "idle" /\ last.op = "create" /\ last.ok
  /\ settings.palette = "z26"
  /\ settings.filter = 1
  /\ settings.phosphor = "always"
  /\ settings.stereo = "mono"
  /\ settings.format = "NTSC"

\* A getVideoResize that returns.
ResizeStep == pc = "idle" /\ pc' = "idle" /\ last'.op = "getVideoResize"

\* C30: getVideoResize returns true exactly when the render width or height
\* of the console differs from the recorded one; it then records both, and
\* otherwise leaves the record; it changes nothing else; and called again at
\* once it returns false.
C30_ResizeOnce ==
  /\ [][ResizeStep =>
         /\ last'.ok <=> (\/ render_width # RenderWidthFn(applied)
                          \/ render_height # RenderHeightFn(engine, settings))
         /\ last'.ok => /\ render_width' = RenderWidthFn(applied)
                        /\ render_height' = RenderHeightFn(engine, settings)
         /\ ~last'.ok => UNCHANGED renderVars
         /\ UNCHANGED <<engine, settings, applied, config, sessVars,
                        rom_image, myOSystem>>]_vars
  /\ [][(ResizeStep /\ last.op = "getVideoResize") => ~last'.ok]_vars

\* A second change of the dimensions, to those of a filtered PAL picture,
\* was reported once and is not reported again.
C30_Witness ==
  /\ pc = "idle"
  /\ last.op = "getVideoResize"
  /\ ~last.ok
  /\ render_width = FilteredWidth
  /\ render_height = 250
  /\ system_ready

\* ------------------------------------------ the event-mapping widget
\* C31: after any sequence of commands and input events the Cancel button is
\* enabled exactly while remap mode is active, the actions list and the Map,
\* Erase and Reset buttons are enabled exactly while it is not, and the
\* actions list has the raw-data flag exactly while it is.
C31_ButtonsFollowRemap ==
  /\ mapper.myCancelMapButton = mapper.myRemapStatus
  /\ mapper.myActionsList.enabled = ~mapper.myRemapStatus
  /\ mapper.myMapButton = ~mapper.myRemapStatus
  /\ mapper.myEraseButton = ~mapper.myRemapStatus
  /\ mapper.myResetButton = ~mapper.myRemapStatus
  /\ mapper.myActionsList.rawdata = mapper.myRemapStatus

\* A step that takes the widget into remap mode, or out of it.
EntersRemap == ~mapper.myRemapStatus /\ mapper'.myRemapStatus
LeavesRemap == mapper.myRemapStatus /\ ~mapper'.myRemapStatus
\* The call that ended handed a mapping to the event handler.
Attempted == last.tried.kind # "none"
\* C32: remap mode is entered only by startRemapping (the start command or a
\* double click) with an action selected and remap mode off, and otherwise
\* startRemapping changes nothing; it is left only by a mapping the event
\* handler accepts, by the stop command or by loadConfig; a mapping the
\* handler rejects leaves the widget in remap mode; after loadConfig remap
\* mode is off.
C32_RemapEntryExit ==
  [][/\ EntersRemap =>
          /\ last'.op = "handleCommand"
          /\ last'.cmd \in {"kStartMapCmd", "kDoubleClickedCmd"}
          /\ mapper'.myActionSelected >= 0
          /\ last'.cmd = "kStartMapCmd" => mapper.myActionSelected >= 0
     /\ (/\ last'.op = "handleCommand" /\ last'.cmd = "kStartMapCmd"
         /\ (mapper.myActionSelected < 0 \/ mapper.myRemapStatus))
          => mapper' = mapper
     /\ LeavesRemap =>
          \/ Attempted' /\ last'.accepted
          \/ last'.op = "handleCommand" /\ last'.cmd = "kStopMapCmd"
          \/ last'.op = "loadConfig"
     /\ (Attempted' /\ ~last'.accepted) =>
          mapper.myRemapStatus /\ mapper'.myRemapStatus
     /\ last'.op = "loadConfig" => ~mapper'.myRemapStatus]_vars
\* A mapping of each kind has been rejected, and the widget is still in remap
\* mode.
C32_Witness ==
  /\ last.op = "handleJoyDown"
  /\ Attempted /\ ~last.accepted
  /\ mapper.myRemapStatus

\* The axis 'on' events heard since remapping started, by their place.
OnEvents ==
  {i \in 1..Len(heard) : heard[i].kind = "axis" /\ heard[i].value # 0}
FirstOn == heard[CHOOSE i \in OnEvents : \A j \in OnEvents : i <= j]
\* C33: an axis mapping is attempted only in remap mode, on an axis event
\* with value 0 whose stick and axis are those of the first non-zero axis
\* event received since remapping started, and with that first event's
\* stick, axis and value; non-zero events, zero events with no capture
\* before them and axis events outside remap mode attempt nothing.
C33_AxisTwoPhase ==
  [][/\ (Attempted' /\ last'.tried.kind = "axis") =>
          /\ last'.op = "handleJoyAxis"
          /\ mapper.myRemapStatus
          /\ last'.ev.value = 0
          /\ OnEvents # {}
          /\ last'.ev.stick = FirstOn.stick
          /\ last'.ev.which = FirstOn.which
          /\ last'.tried = Ev("axis", 0, {}, FirstOn.stick, FirstOn.which,
                              FirstOn.value)
     /\ (/\ last'.op = "handleJoyAxis"
         /\ \/ last'.ev.value # 0
            \/ OnEvents = {}
            \/ ~mapper.myRemapStatus)
          => ~Attempted']_vars
\* An axis was mapped after 'on' events of two axes: the handler got the
\* first of them, and refused it.
C33_Witness ==
  /\ last.op = "handleJoyAxis"
  /\ Attempted /\ ~last.accepted
  /\ Len(heard) = 3
  /\ heard[1].value # 0 /\ heard[2].value # 0
  /\ heard[1].which # heard[2].which
  /\ last.tried.value = heard[1].value /\ heard[1].value # heard[2].value

\* The key-down events heard since remapping started, by their place.
KeyDowns == {i \in 1..Len(heard) : heard[i].kind = "keydown"}
LastKeyDown == heard[CHOOSE i \in KeyDowns : \A j \in KeyDowns : j <= i]
\* C34: a key mapping is attempted only in remap mode with an action
\* selected, on a key-up event that carries none of Ctrl, Shift, Alt and GUI,
\* and with the key of the most recent key-down and the union of the
\* modifiers of all key-downs received since startRemapping (key 0 and no
\* modifier when there was none); key events outside remap mode attempt
\* nothing and leave the accumulated key and modifiers alone.
C34_KeyAccumulates ==
  [][/\ (Attempted' /\ last'.tried.kind = "key") =>
          /\ last'.op = "handleKeyUp"
          /\ mapper.myRemapStatus /\ mapper.myActionSelected >= 0
          /\ last'.ev.mod \cap KbdmMask = {}
          /\ last'.tried.key = IF KeyDowns = {} THEN 0 ELSE LastKeyDown.key
          /\ last'.tried.mod = UNION {heard[i].mod : i \in KeyDowns}
     /\ (last'.op \in {"handleKeyDown", "handleKeyUp"}
           /\ ~mapper.myRemapStatus) =>
          /\ ~Attempted'
          /\ mapper'.myKey = mapper.myKey
          /\ mapper'.myMod = mapper.myMod]_vars
\* A key was mapped after two key-downs with different modifiers: the handler
\* got the second key with both modifiers, and refused it.
C34_Witness ==
  /\ last.op = "handleKeyUp"
  /\ Attempted /\ ~last.accepted
  /\ Len(heard) = 2
  /\ heard[1].key # heard[2].key
  /\ last.tried.key = heard[2].key
  /\ last.tried.mod = {"KBDM_CTRL", "KBDM_SHIFT"}

\* C35: the widget never asks the event handler about a negative action
\* index (eventAtIndex, actionAtIndex, keyAtIndex), and once an action has
\* been selected myActionSelected never becomes negative again.
C35_NoNegativeIndex ==
  [][/\ \A idx \in last'.asked : idx >= 0
     /\ mapper.myActionSelected >= 0 => mapper'.myActionSelected >= 0]_vars

\* ------------------------------------------------- the check-list widget
\* The selected line is one of the lines the widget shows, and every
\* checkbox shows the state of its line.
SelectedShown ==
  /\ InList(checks, checks.selectedItem)
  /\ checks.selectedItem >= checks.currentPos
  /\ checks.selectedItem < checks.currentPos + checks.rows
Drawn ==
  \A i \in 0..(checks.rows - 1) :
    InList(checks, checks.currentPos + i) =>
      checks.checkList[i + 1].state = checks.stateList[checks.currentPos + i + 1]
\* C36: a UISelect event acts as a click on the checkbox of the selected
\* line: at every scroll position it uses the checkbox of row selected -
\* currentPos, toggles the state of the selected line and of no other, and
\* tells the boss that line's index.
C36_SelectTogglesSelected ==
  [][(/\ last'.op = "handleEvent" /\ last'.e = "UISelect"
      /\ SelectedShown /\ Drawn) =>
        /\ last'.boxes = {checks.selectedItem - checks.currentPos}
        /\ checks'.stateList =
             [checks.stateList EXCEPT ![checks.selectedItem + 1] = ~@]
        /\ checks'.list = checks.list
        /\ last'.sent = <<"kListItemChecked", checks.selectedItem>>]_vars

\* C37: the text list and the state list are of the same length and every
\* index used on them is in range; setLine with a line that is not in the
\* list, negative or too large, changes nothing, and getState answers false
\* for such a line.
C37_IndicesInRange ==
  [][/\ Len(checks'.list) = Len(checks'.stateList)
     /\ \A line \in last'.used : InList(checks, line)
     /\ (last'.op = "setLine" /\ ~InList(checks, last'.line)) =>
          checks' = checks
     /\ (last'.op = "getState" /\ ~InList(checks, last'.line)) =>
          ~last'.ret]_vars

====
